---- MODULE Spec2Model ----
(***************************************************************************)
(* GPX route ingestion and enrichment (smithdc1/fw_routes).                *)
(*                                                                         *)
(* The model follows routes/services.py, routes/tasks.py, routes/utils.py, *)
(* routes/models.py, routes/views.py, routes/admin.py and the management   *)
(* commands update_start_locations and regenerate_thumbnails.              *)
(* Strings are sequences of tokens ("" is << >>), a                        *)
(* nullable float is a sequence of at most one number (None is << >>), the *)
(* Route table is a function from the primary keys that have a row.        *)
(***************************************************************************)
EXTENDS Integers, Sequences, FiniteSets, TLC

(***************************************************************************)
(* Bounds of the model.                                                    *)
(***************************************************************************)
MaxRoutes == 1      \* routes ever persisted (primary keys 1..MaxRoutes)
MaxPending == 1     \* re-runs of process_route_async waiting in the queue, per id
MaxConcurrent == 2  \* processes in the middle of an operation at one time
NumWorkers == 1     \* task workers

Ids == 1..MaxRoutes
Workers == 1..NumWorkers

(***************************************************************************)
(* Python values.                                                          *)
(***************************************************************************)
None == << >>
EmptyStr == << >>

\* truthiness of an Optional[float]: None and 0.0 are falsy
Truthy(f) == f # None /\ f[1] # 0

\* truthiness of a str
NonEmpty(s) == s # EmptyStr

Abs(x) == IF x < 0 THEN -x ELSE x

(***************************************************************************)
(* Tag names: characters are "a", "A" and " ".                             *)
(***************************************************************************)
IsSpace(c) == c = " "

RECURSIVE LStrip(_)
LStrip(s) == IF s # << >> /\ IsSpace(Head(s)) THEN LStrip(Tail(s)) ELSE s

RECURSIVE RStrip(_)
RStrip(s) ==
    IF s # << >> /\ IsSpace(s[Len(s)]) THEN RStrip(SubSeq(s, 1, Len(s) - 1)) ELSE s

\* str.strip()
Strip(s) == RStrip(LStrip(s))

\* re.sub(r"\s+", " ", s): every run of whitespace becomes one space
RECURSIVE CollapseSpaces(_)
CollapseSpaces(s) ==
    IF Len(s) < 2 THEN s
    ELSE IF IsSpace(s[1]) /\ IsSpace(s[2]) THEN CollapseSpaces(Tail(s))
    ELSE <<Head(s)>> \o CollapseSpaces(Tail(s))

Upper(c) == IF c = "a" THEN "A" ELSE c
Lower(c) == IF c = "A" THEN "a" ELSE c

\* str.title(): a letter after a non-letter is upper-cased, any other lower-cased
Title(s) ==
    [k \in 1..Len(s) |->
        IF k = 1 \/ IsSpace(s[k - 1]) THEN Upper(s[k]) ELSE Lower(s[k])]

\* Tag.normalize_name
normalize_name(name) ==
    IF name = EmptyStr THEN EmptyStr ELSE Title(CollapseSpaces(Strip(name)))

(***************************************************************************)
(* File names: tokens are "a" (a character that is in no extension) and    *)
(* the character groups ".gpx" and ".GPX".                                 *)
(***************************************************************************)
\* str.replace(".gpx", ""): every occurrence of ".gpx" is removed
RECURSIVE ReplaceGpx(_)
ReplaceGpx(s) ==
    IF s = << >> THEN << >>
    ELSE IF Head(s) = ".gpx" THEN ReplaceGpx(Tail(s))
    ELSE <<Head(s)>> \o ReplaceGpx(Tail(s))

\* file.name.lower().endswith(".gpx") of validate_gpx_file
HasGpxExtension(fname) ==
    fname # << >> /\ fname[Len(fname)] \in {".gpx", ".GPX"}

\* name=name or gpx_data["name"] or gpx_file.name.replace(".gpx", "")
ResolveName(override, gpxName, fname) ==
    IF NonEmpty(override) THEN override
    ELSE IF NonEmpty(gpxName) THEN gpxName
    ELSE ReplaceGpx(fname)

(***************************************************************************)
(* GPX documents and parse_gpx.  A document is what gpxpy.parse gives: a   *)
(* sequence of tracks (name, segments of points), of routes (name, points) *)
(* and of waypoints; wellformed is FALSE when gpxpy.parse raises.  len3d   *)
(* and uphill are gpxpy's length_3d() and get_uphill_downhill()[0].        *)
(***************************************************************************)
RECURSIVE Flatten(_)
Flatten(ss) == IF ss = << >> THEN << >> ELSE Head(ss) \o Flatten(Tail(ss))

RECURSIVE FirstName(_, _)
FirstName(name, elems) ==
    IF elems = << >> THEN name
    ELSE FirstName(IF name = EmptyStr /\ NonEmpty(Head(elems).name)
                   THEN Head(elems).name ELSE name, Tail(elems))

RECURSIVE SumField(_, _)
SumField(elems, f) ==
    IF elems = << >> THEN 0 ELSE Head(elems)[f] + SumField(Tail(elems), f)

TrackPoints(doc) == Flatten([k \in 1..Len(doc.tracks) |-> Flatten(doc.tracks[k].segments)])
RoutePoints(doc) == Flatten([k \in 1..Len(doc.routes) |-> doc.routes[k].points])

\* parse_gpx that takes the points of every source
parse_gpxMerged(doc) ==
    LET points == TrackPoints(doc) \o RoutePoints(doc) \o doc.waypoints
    IN  [name |-> FirstName(FirstName(EmptyStr, doc.tracks), doc.routes),
         points |-> points,
         distance_km |-> SumField(doc.tracks, "len3d") + SumField(doc.routes, "len3d"),
         elevation_gain |-> SumField(doc.tracks, "uphill") + SumField(doc.routes, "uphill"),
         start_lat |-> IF points = << >> THEN None ELSE <<points[1][1]>>,
         start_lon |-> IF points = << >> THEN None ELSE <<points[1][2]>>,
         end_lat |-> IF points = << >> THEN None ELSE <<points[Len(points)][1]>>,
         end_lon |-> IF points = << >> THEN None ELSE <<points[Len(points)][2]>>]

parse_gpx(doc) ==
    LET trkName == FirstName(EmptyStr, doc.tracks)
        trkPts == TrackPoints(doc)
        useRoutes == trkPts = << >>
        rteName == IF useRoutes THEN FirstName(trkName, doc.routes) ELSE trkName
        rtePts == IF useRoutes THEN RoutePoints(doc) ELSE trkPts
        points == IF rtePts = << >> THEN doc.waypoints ELSE rtePts
    IN  [name |-> rteName,
         points |-> points,
         distance_km |-> SumField(doc.tracks, "len3d") + SumField(doc.routes, "len3d"),
         elevation_gain |-> SumField(doc.tracks, "uphill") + SumField(doc.routes, "uphill"),
         start_lat |-> IF points = << >> THEN None ELSE <<points[1][1]>>,
         start_lon |-> IF points = << >> THEN None ELSE <<points[1][2]>>,
         end_lat |-> IF points = << >> THEN None ELSE <<points[Len(points)][1]>>,
         end_lon |-> IF points = << >> THEN None ELSE <<points[Len(points)][2]>>]

(***************************************************************************)
(* StartPointMatcher.  Coordinates lie on a grid whose step is 250 m, so a *)
(* neighbouring grid point is exactly at the pipeline's threshold.         *)
(***************************************************************************)
distance_meters(lat1, lon1, lat2, lon2) ==
    250 * (Abs(lat1 - lat2) + Abs(lon1 - lon2))

\* the candidates at minimal distance from (lat, lon)
Closest(lat, lon, points) ==
    {sp \in points :
        \A other \in points :
            distance_meters(lat, lon, sp.latitude, sp.longitude)
                <= distance_meters(lat, lon, other.latitude, other.longitude)}

\* find_closest_start_point that leaves out a candidate exactly at the limit
find_closest_start_pointStrict(lat, lon, max_distance_meters, points) ==
    {sp \in Closest(lat, lon, points) :
        distance_meters(lat, lon, sp.latitude, sp.longitude) < max_distance_meters}

\* the values find_closest_start_point may return; the empty set stands for None
\* (ties are broken arbitrarily)
find_closest_start_point(lat, lon, max_distance_meters, points) ==
    {sp \in Closest(lat, lon, points) :
        distance_meters(lat, lon, sp.latitude, sp.longitude) <= max_distance_meters}

(***************************************************************************)
(* ReverseGeocoder.  A response is what requests.get gives: raised is TRUE *)
(* for a timeout or a network error, malformed for a body that is not a    *)
(* JSON object of strings; a field of the address that is absent is the    *)
(* empty string.                                                           *)
(***************************************************************************)
Fmt4(x) == ToString(x) \o ".0000"

\* f"{lat:.4f}, {lon:.4f}"
CoordString(lat, lon) == <<Fmt4(lat), ", ", Fmt4(lon)>>

RECURSIVE Join(_)
Join(parts) ==
    IF parts = << >> THEN << >>
    ELSE IF Len(parts) = 1 THEN Head(parts)
    ELSE Head(parts) \o <<", ">> \o Join(Tail(parts))

\* AddressParts that prefers the town to the city
AddressPartsTownFirst(resp) ==
    (IF NonEmpty(resp.road) THEN <<resp.road>> ELSE << >>)
    \o (IF NonEmpty(resp.town) THEN <<resp.town>>
        ELSE IF NonEmpty(resp.city) THEN <<resp.city>>
        ELSE IF NonEmpty(resp.village) THEN <<resp.village>>
        ELSE << >>)
    \o (IF NonEmpty(resp.state) THEN <<resp.state>> ELSE << >>)

\* utils.py:83-96: the parts of the address that go into the name
AddressParts(resp) ==
    (IF NonEmpty(resp.road) THEN <<resp.road>> ELSE << >>)
    \o (IF NonEmpty(resp.city) THEN <<resp.city>>
        ELSE IF NonEmpty(resp.town) THEN <<resp.town>>
        ELSE IF NonEmpty(resp.village) THEN <<resp.village>>
        ELSE << >>)
    \o (IF NonEmpty(resp.state) THEN <<resp.state>> ELSE << >>)

\* get_location_name that reads the body whatever the status
get_location_nameAnyStatus(lat, lon, resp) ==
    IF ~resp.raised /\ ~resp.malformed
    THEN IF AddressParts(resp) # << >> THEN Join(AddressParts(resp))
         ELSE resp.display_name
    ELSE CoordString(lat, lon)

\* utils.py:72-102: the body of a 200 answer is read inside the try, and whatever is
\* raised there (the request, response.json(), a body that is no JSON object of
\* strings) ends in the return of line 102
get_location_name(lat, lon, resp) ==
    IF ~resp.raised /\ resp.status_code = 200 /\ ~resp.malformed
    THEN IF AddressParts(resp) # << >> THEN Join(AddressParts(resp))
         ELSE resp.display_name
    ELSE CoordString(lat, lon)

(***************************************************************************)
(* MapRenderer.  primary is the outcome of the Playwright path (raised, or *)
(* the size of the screenshot), fallbackOk that of the matplotlib path.    *)
(***************************************************************************)
_generate_simple_thumbnail(points, fallbackOk) ==
    IF fallbackOk THEN <<"plot">> ELSE None

\* generate_static_map_image that accepts a screenshot of exactly the minimum size
generate_static_map_imageLax(points, primary, fallbackOk) ==
    IF points = << >> THEN None
    ELSE IF ~primary.raised /\ primary.size >= 5000 THEN <<"screenshot">>
    ELSE _generate_simple_thumbnail(points, fallbackOk)

\* the rendering subsystems one call starts (utils.py:114-207)
Invoked(points, primary) ==
    IF points = << >> THEN {}
    ELSE IF ~primary.raised /\ primary.size > 5000 THEN {"playwright"}
    ELSE {"playwright", "matplotlib"}

generate_static_map_image(points, primary, fallbackOk) ==
    IF points = << >> THEN None
    ELSE IF ~primary.raised /\ primary.size > 5000 THEN <<"screenshot">>
    ELSE _generate_simple_thumbnail(points, fallbackOk)

(***************************************************************************)
(* update_start_locations: Command._is_coordinate_string.                  *)
(***************************************************************************)
Coords == 0..2
Numerals == {Fmt4(x) : x \in Coords}

\* not location, or ^-?\d+\.\d+,\s*-?\d+\.\d+$ matches
_is_coordinate_string(location) ==
    \/ location = EmptyStr
    \/ /\ Len(location) = 3
       /\ location[1] \in Numerals
       /\ location[2] = ", "
       /\ location[3] \in Numerals

(***************************************************************************)
(* The inputs the environment supplies.                                    *)
(***************************************************************************)
NoResp ==
    [raised |-> FALSE, status_code |-> 200, malformed |-> FALSE,
     road |-> EmptyStr, city |-> EmptyStr,
     town |-> EmptyStr, village |-> EmptyStr, state |-> EmptyStr,
     display_name |-> EmptyStr]

Responses ==
    {[NoResp EXCEPT !.raised = TRUE],
     [NoResp EXCEPT !.status_code = 500],
     [NoResp EXCEPT !.city = <<"Town">>],
     NoResp}

PrimaryOutcomes ==
    {[raised |-> TRUE, size |-> 0], [raised |-> FALSE, size |-> 5000],
     [raised |-> FALSE, size |-> 5001]}

AllStartPoints ==
    {[name |-> <<"Park">>, latitude |-> 1, longitude |-> 1]}

NoDoc == [wellformed |-> TRUE, tracks |-> << >>, routes |-> << >>, waypoints |-> << >>]

DocBad == [NoDoc EXCEPT !.wellformed = FALSE]

DocTrack ==
    [NoDoc EXCEPT !.tracks =
        <<[name |-> <<"Track">>, segments |-> << << <<1, 1>>, <<2, 1>> >> >>,
           len3d |-> 1, uphill |-> 1]>>]

DocEquator ==
    [NoDoc EXCEPT !.tracks =
        <<[name |-> EmptyStr, segments |-> << << <<0, 1>>, <<1, 1>> >> >>,
           len3d |-> 1, uphill |-> 0]>>]

\* the uploads: a document, the upload's file name and the name typed by the user
Uploads ==
    {[doc |-> DocBad, fname |-> <<"a", ".gpx">>, override |-> EmptyStr],
     [doc |-> DocTrack, fname |-> <<"a", ".gpx">>, override |-> EmptyStr],
     [doc |-> DocEquator, fname |-> <<"a", ".GPX">>, override |-> EmptyStr],
     [doc |-> NoDoc, fname |-> <<"a", ".gpx">>, override |-> <<"Trip">>]}

TagNames == {<<"a">>, <<"A">>, <<" ">>}

TagLists == {<< >>} \cup {<<n>> : n \in TagNames} \cup {<< <<"a">>, <<"a">> >>}

(***************************************************************************)
(* State.                                                                  *)
(***************************************************************************)
VARIABLES
    rows,         \* the Route table: primary key -> row
    nextId,       \* the next primary key the table hands out
    gpxStore,     \* number of GPX files saved to storage
    tags,         \* the Tag table: the names of its rows
    routeTags,    \* the Route.tags relation: primary key -> set of tag names
    startPoints,  \* the StartPoint table
    asyncQ,       \* process_route_async tasks enqueued and not yet started, per id
    deferredQ,    \* process_route_deferred tasks enqueued and not yet started
    web,          \* the create_route_from_gpx call in progress
    wk,           \* the task workers
    cmd,          \* the update_start_locations command
    hist,         \* history per id: enqueues, writes, and whether the last operation
                  \* completed on the record is a process_route_async run
    bulk,         \* the batch of files in bulk processing
    geo,          \* the reverse geocoder as its operator sees it: calls in the last second
    probe,        \* the inputs and the result of the function or scenario under study
    regen         \* the regenerate_thumbnails command

vars == <<rows, nextId, gpxStore, tags, routeTags, startPoints,
          asyncQ, deferredQ, web, wk, cmd, hist, bulk, geo, probe, regen>>

\* the variables of bulk processing, of the geocoder's operator, of the studies and of
\* the regenerate_thumbnails command
aux == <<bulk, geo, probe, regen>>

\* the variables of the pipeline
db == <<rows, nextId, gpxStore, tags, routeTags, startPoints,
        asyncQ, deferredQ, web, wk, cmd, hist>>

\* NewRoute of a constructor call that leaves out start_lat and start_lon
NewRouteNoStart(name, data, fname) ==
    [name |-> name,
     gpx_file |-> fname,
     thumbnail_image |-> 0,
     route_coordinates |-> data.points,
     distance_km |-> data.distance_km,
     elevation_gain |-> data.elevation_gain,
     start_location |-> EmptyStr,
     start_lat |-> None,
     start_lon |-> None]

\* Route(...) as its constructors fill it; the other fields take the model's defaults
NewRoute(name, data, fname) ==
    [name |-> name,
     gpx_file |-> fname,
     thumbnail_image |-> 0,
     route_coordinates |-> data.points,
     distance_km |-> data.distance_km,
     elevation_gain |-> data.elevation_gain,
     start_location |-> EmptyStr,
     start_lat |-> data.start_lat,
     start_lon |-> data.start_lon]

NoRoute == NewRoute(EmptyStr, parse_gpx(NoDoc), EmptyStr)

IdleWorker ==
    [pc |-> "idle", kind |-> "none", rid |-> 0, fname |-> EmptyStr, route |-> NoRoute,
     seenLoc |-> EmptyStr, seenThumb |-> 0,
     matched |-> << >>, geocoded |-> << >>, rendered |-> << >>,
     status |-> "none"]

IdleWeb == [pc |-> "idle", rid |-> 0, status |-> "none"]

IdleCmd == [pc |-> "idle", all |-> FALSE, force |-> FALSE, dry |-> FALSE, todo |-> << >>]

\* the command's options, its queryset, its counters, and what its last run did: the
\* message it ended with, its renderer calls per route, what they returned, and the
\* routes whose old thumbnail file it deleted from storage
IdleRegen ==
    [pc |-> "idle", all |-> FALSE, force |-> FALSE, dry |-> FALSE, route_id |-> 0,
     todo |-> << >>, message |-> "none",
     success_count |-> 0, skipped_count |-> 0, error_count |-> 0,
     calls |-> [i \in Ids |-> 0], returned |-> [i \in Ids |-> "none"], deleted |-> {}]

\* recent: the geocoder was called within the last second; burst: its last call came
\* within a second of the call before
NoCalls == [recent |-> FALSE, burst |-> FALSE]

IdleBulk ==
    [pc |-> "idle", batch |-> << >>, todo |-> << >>, tag_list |-> << >>,
     uploaded_count |-> 0, failed_files |-> << >>, results |-> {}]

InitDb ==
    /\ rows = << >>
    /\ nextId = 1
    /\ gpxStore = 0
    /\ tags = {}
    /\ routeTags = [i \in Ids |-> {}]
    /\ startPoints = {}
    /\ asyncQ = [i \in Ids |-> 0]
    /\ deferredQ = 0
    /\ web = IdleWeb
    /\ wk = [w \in Workers |-> IdleWorker]
    /\ cmd = IdleCmd
    /\ hist = [enq |-> [i \in Ids |-> 0],
               eager |-> {},
               locWrites |-> [i \in Ids |-> 0],
               thumbWrites |-> [i \in Ids |-> 0],
               ran |-> [i \in Ids |-> FALSE]]

Init ==
    /\ InitDb
    /\ bulk = IdleBulk
    /\ geo = NoCalls
    /\ regen = IdleRegen
    /\ probe = << >>

Exists(id) == id \in DOMAIN rows

\* the write counters of hist say "never", "once" or "more than once"
Count(n) == IF n > 2 THEN 2 ELSE n

(***************************************************************************)
(* Tag attachment: the loop of services.py:61-66 and tasks.py:98-103.      *)
(* Tag.objects.get_or_create(name=n) looks n up as given; when no row has  *)
(* that name it saves a new Tag, whose save() normalizes the name; the     *)
(* unique constraint then rejects a name the table already holds and the   *)
(* IntegrityError leaves the loop.  route.tags.add needs the route's row.  *)
(***************************************************************************)
RECURSIVE AttachTags(_, _, _, _)
AttachTags(tag_names, table, rtags, rowExists) ==
    IF tag_names = << >>
    THEN [tags |-> table, rtags |-> rtags, raised |-> FALSE]
    ELSE LET tag_name == Strip(Head(tag_names))
             saved == normalize_name(tag_name)
         IN  IF tag_name = EmptyStr
             THEN AttachTags(Tail(tag_names), table, rtags, rowExists)
             ELSE IF tag_name \in table
             THEN IF rowExists
                  THEN AttachTags(Tail(tag_names), table, rtags \cup {tag_name}, rowExists)
                  ELSE [tags |-> table, rtags |-> rtags, raised |-> TRUE]
             ELSE IF saved \in table
             THEN [tags |-> table, rtags |-> rtags, raised |-> TRUE]
             ELSE IF rowExists
             THEN AttachTags(Tail(tag_names), table \cup {saved}, rtags \cup {saved}, rowExists)
             ELSE [tags |-> table \cup {saved}, rtags |-> rtags, raised |-> TRUE]

(***************************************************************************)
(* create_route_from_gpx (services.py:14-71), in two steps: parse and      *)
(* persist, then attach the tags and enqueue.                              *)
(***************************************************************************)
\* StoredFiles of a create that saves the file before it parses
StoredFilesBeforeParse(up) == 1

\* services.py:39 and 54-55: route.gpx_file.save comes after parse_gpx, so an upload
\* whose parse raises stores no file
StoredFiles(up) == IF up.doc.wellformed THEN 1 ELSE 0

CreatePersistOf(up) ==
    /\ web.pc = "idle"
    /\ gpxStore' = gpxStore + StoredFiles(up)
    /\ IF ~up.doc.wellformed
       THEN /\ web' = [pc |-> "idle", rid |-> 0, status |-> "parse_error"]
            /\ UNCHANGED <<rows, nextId, hist>>
       ELSE /\ nextId <= MaxRoutes
            /\ rows' = rows @@ (nextId :>
                   NewRoute(ResolveName(up.override, parse_gpx(up.doc).name, up.fname),
                            parse_gpx(up.doc), up.fname))
            /\ nextId' = nextId + 1
            /\ hist' = [hist EXCEPT !.eager = @ \cup {nextId}]
            /\ web' = [pc |-> "tags", rid |-> nextId, status |-> "running"]
    /\ UNCHANGED <<tags, routeTags, startPoints, asyncQ, deferredQ, wk, cmd>>

CreatePersist == \E up \in Uploads : CreatePersistOf(up)

CreateTagsEnqueueOf(tag_names) ==
    /\ web.pc = "tags"
    /\ LET res == AttachTags(tag_names, tags, routeTags[web.rid], Exists(web.rid))
       IN  /\ tags' = res.tags
           /\ routeTags' = [routeTags EXCEPT ![web.rid] = res.rtags]
           /\ IF res.raised
              THEN /\ web' = [web EXCEPT !.pc = "idle", !.status = "error"]
                   /\ UNCHANGED <<asyncQ, hist>>
              ELSE /\ asyncQ' = [asyncQ EXCEPT ![web.rid] = @ + 1]
                   /\ hist' = [hist EXCEPT !.enq[web.rid] = @ + 1]
                   /\ web' = [web EXCEPT !.pc = "idle", !.status = "ok"]
    /\ UNCHANGED <<rows, nextId, gpxStore, startPoints, deferredQ, wk, cmd>>

CreateTagsEnqueue == \E tag_names \in TagLists : CreateTagsEnqueueOf(tag_names)

(***************************************************************************)
(* queue_route_from_gpx (services.py:74-110): only enqueues.               *)
(***************************************************************************)
QueueDeferred ==
    /\ nextId + deferredQ <= MaxRoutes
    /\ deferredQ' = deferredQ + 1
    /\ UNCHANGED <<rows, nextId, gpxStore, tags, routeTags, startPoints,
                   asyncQ, web, wk, cmd, hist>>

\* process_route_async enqueued or called for an id by hand (a re-run)
Invoke(id) ==
    /\ asyncQ[id] < MaxPending
    /\ asyncQ' = [asyncQ EXCEPT ![id] = @ + 1]
    /\ UNCHANGED <<rows, nextId, gpxStore, tags, routeTags, startPoints,
                   deferredQ, web, wk, cmd, hist>>

\* route_delete (views.py:231-237)
DeleteRoute(id) ==
    /\ Exists(id)
    /\ rows' = [i \in DOMAIN rows \ {id} |-> rows[i]]
    /\ routeTags' = [routeTags EXCEPT ![id] = {}]
    /\ hist' = [hist EXCEPT !.ran[id] = FALSE]
    /\ UNCHANGED <<nextId, gpxStore, tags, startPoints, asyncQ, deferredQ,
                   web, wk, cmd>>

\* a StartPoint added through the admin (admin.py:17-28)
AddStartPoint(sp) ==
    /\ sp \notin startPoints
    /\ startPoints' = startPoints \cup {sp}
    /\ UNCHANGED <<rows, nextId, gpxStore, tags, routeTags, asyncQ,
                   deferredQ, web, wk, cmd, hist>>

(***************************************************************************)
(* The task workers.  Workers are interchangeable: a task goes to the      *)
(* first worker that is free.                                              *)
(***************************************************************************)
MayStart(w) ==
    /\ wk[w].pc = "idle"
    /\ \A v \in Workers : v < w => wk[v].pc # "idle"

SuccessStatus(kind) == IF kind = "async" THEN "processed" ELSE "created_and_processed"

\* ErrorStatus of a task that reports success whatever happened
ErrorStatusSwallowed(kind) == SuccessStatus(kind)

ErrorStatus(kind) == IF kind = "async" THEN "error_processing" ELSE "error_creating"

\* the values one call of the matcher may return, each as a set of at most one StartPoint
MatchResults(lat, lon) ==
    IF find_closest_start_point(lat, lon, 250, startPoints) = {}
    THEN {{}}
    ELSE {{sp} : sp \in find_closest_start_point(lat, lon, 250, startPoints)}

\* Fetched without the handler of Route.DoesNotExist: the missing row is reported by the
\* handler of Exception
FetchedNoHandler(id) ==
    IF Exists(id)
    THEN [IdleWorker EXCEPT !.pc = "locate", !.kind = "async", !.rid = id,
                            !.route = rows[id],
                            !.seenLoc = rows[id].start_location,
                            !.seenThumb = rows[id].thumbnail_image]
    ELSE [IdleWorker EXCEPT !.pc = "done", !.kind = "async", !.rid = id,
                            !.status = "error_processing"]

\* tasks.py:17-18 and 51-52: Route.objects.get(pk=route_id) gives the task its copy of
\* the row, or raises Route.DoesNotExist, which ends the task with "Route {id} not found"
Fetched(id) ==
    IF Exists(id)
    THEN [IdleWorker EXCEPT !.pc = "locate", !.kind = "async", !.rid = id,
                            !.route = rows[id],
                            !.seenLoc = rows[id].start_location,
                            !.seenThumb = rows[id].thumbnail_image]
    ELSE [IdleWorker EXCEPT !.pc = "done", !.kind = "async", !.rid = id,
                            !.status = "not_found"]

\* a worker takes a process_route_async task from the queue
AsyncGet(w) ==
    /\ MayStart(w)
    /\ \E id \in Ids :
        /\ asyncQ[id] > 0
        /\ asyncQ' = [asyncQ EXCEPT ![id] = @ - 1]
        /\ wk' = [wk EXCEPT ![w] = Fetched(id)]
    /\ UNCHANGED <<rows, nextId, gpxStore, tags, routeTags, startPoints,
                   deferredQ, web, cmd, hist>>

\* tasks.py:72-95: a worker takes a process_route_deferred task, parses and persists
DeferredCreateOf(w, up) ==
    /\ MayStart(w)
    /\ deferredQ > 0
    /\ deferredQ' = deferredQ - 1
    /\ IF ~up.doc.wellformed
       THEN /\ wk' = [wk EXCEPT ![w] =
                   [IdleWorker EXCEPT !.pc = "done", !.kind = "deferred",
                                      !.fname = up.fname,
                                      !.status = "error_creating"]]
            /\ UNCHANGED <<rows, nextId, gpxStore>>
       ELSE /\ nextId <= MaxRoutes
            /\ rows' = rows @@ (nextId :>
                   NewRoute(ResolveName(up.override, parse_gpx(up.doc).name, up.fname),
                            parse_gpx(up.doc), up.fname))
            /\ gpxStore' = gpxStore + 1
            /\ nextId' = nextId + 1
            /\ wk' = [wk EXCEPT ![w] =
                   [IdleWorker EXCEPT !.pc = "tags", !.kind = "deferred", !.rid = nextId,
                                      !.fname = up.fname,
                                      !.route = rows'[nextId]]]
    /\ UNCHANGED <<tags, routeTags, startPoints, asyncQ, web, cmd, hist>>

DeferredCreate(w) == \E up \in Uploads : DeferredCreateOf(w, up)

\* tasks.py:97-103
DeferredTagsOf(w, tag_names) ==
    /\ wk[w].pc = "tags"
    /\ LET res == AttachTags(tag_names, tags, routeTags[wk[w].rid], Exists(wk[w].rid))
       IN  /\ tags' = res.tags
           /\ routeTags' = [routeTags EXCEPT ![wk[w].rid] = res.rtags]
           /\ wk' = [wk EXCEPT ![w] =
                   IF res.raised
                   THEN [@ EXCEPT !.pc = "done", !.status = "error_creating"]
                   ELSE [@ EXCEPT !.pc = "locate"]]
    /\ UNCHANGED <<rows, nextId, gpxStore, startPoints, asyncQ, deferredQ,
                   web, cmd, hist>>

DeferredTags(w) == \E tag_names \in TagLists : DeferredTagsOf(w, tag_names)

\* NeedsLocation of a deferred task that leaves the location to a later task
NeedsLocationAsyncOnly(t) ==
    /\ Truthy(t.route.start_lat)
    /\ Truthy(t.route.start_lon)
    /\ t.kind = "async" /\ ~NonEmpty(t.route.start_location)

\* NeedsLocation without the test of start_location
NeedsLocationUnchecked(t) ==
    /\ Truthy(t.route.start_lat)
    /\ Truthy(t.route.start_lon)

\* tasks.py:21 and 106: does the location step run?
NeedsLocation(t) ==
    /\ Truthy(t.route.start_lat)
    /\ Truthy(t.route.start_lon)
    /\ t.kind = "deferred" \/ ~NonEmpty(t.route.start_location)

\* NeedsThumbnail without the test of thumbnail_image
NeedsThumbnailUnchecked(t) == t.route.route_coordinates # << >>

\* tasks.py:41 and 123: does the thumbnail step run?
NeedsThumbnail(t) ==
    /\ t.route.route_coordinates # << >>
    /\ t.kind = "deferred" \/ t.route.thumbnail_image = 0

\* tasks.py:21-32 and 106-115: the matcher is called; it may raise (a failing query)
Locate(w) ==
    /\ wk[w].pc = "locate"
    /\ IF ~NeedsLocation(wk[w])
       THEN wk' = [wk EXCEPT ![w].pc = "render"]
       ELSE \/ wk' = [wk EXCEPT ![w].pc = "done",
                                ![w].matched = <<"raised">>,
                                ![w].status = ErrorStatus(wk[w].kind)]
            \/ \E hit \in MatchResults(wk[w].route.start_lat[1], wk[w].route.start_lon[1]) :
                 wk' = [wk EXCEPT ![w] =
                        IF hit = {}
                        THEN [@ EXCEPT !.pc = "geocode", !.matched = <<"none">>]
                        ELSE [@ EXCEPT !.pc = "save_location",
                                       !.matched = <<"hit">>,
                                       !.route.start_location =
                                            (CHOOSE sp \in hit : TRUE).name]]
    /\ UNCHANGED <<rows, nextId, gpxStore, tags, routeTags, startPoints,
                   asyncQ, deferredQ, web, cmd, hist>>

\* tasks.py:33-38 and 116-120
Geocode(w) ==
    /\ wk[w].pc = "geocode"
    /\ \E resp \in Responses :
        LET location_name ==
                get_location_name(wk[w].route.start_lat[1], wk[w].route.start_lon[1], resp)
        IN  wk' = [wk EXCEPT ![w] =
                IF NonEmpty(location_name)
                THEN [@ EXCEPT !.pc = "save_location",
                               !.geocoded = <<location_name>>,
                               !.route.start_location = location_name]
                ELSE [@ EXCEPT !.pc = "render", !.geocoded = <<location_name>>]]
    /\ UNCHANGED <<rows, nextId, gpxStore, tags, routeTags, startPoints,
                   asyncQ, deferredQ, web, cmd, hist>>

\* route.save(update_fields=["start_location"]): an UPDATE of one column, which
\* raises DatabaseError when the row is gone
SaveLocation(w) ==
    /\ wk[w].pc = "save_location"
    /\ IF Exists(wk[w].rid)
       THEN /\ rows' = [rows EXCEPT ![wk[w].rid].start_location =
                                        wk[w].route.start_location]
            /\ hist' = [hist EXCEPT !.locWrites[wk[w].rid] = Count(@ + 1)]
            /\ wk' = [wk EXCEPT ![w].pc = "render"]
       ELSE /\ wk' = [wk EXCEPT ![w].pc = "done",
                                ![w].status = ErrorStatus(wk[w].kind)]
            /\ UNCHANGED <<rows, hist>>
    /\ UNCHANGED <<nextId, gpxStore, tags, routeTags, startPoints,
                   asyncQ, deferredQ, web, cmd>>

\* tasks.py:41-45 and 123-127, then the return of line 49 or 131
Render(w) ==
    /\ wk[w].pc = "render"
    /\ IF ~NeedsThumbnail(wk[w])
       THEN wk' = [wk EXCEPT ![w].pc = "done", ![w].status = SuccessStatus(wk[w].kind)]
       ELSE \E primary \in PrimaryOutcomes, fallbackOk \in BOOLEAN :
            LET thumbnail ==
                    generate_static_map_image(wk[w].route.route_coordinates,
                                              primary, fallbackOk)
            IN  wk' = [wk EXCEPT ![w] =
                    IF thumbnail # None
                    THEN [@ EXCEPT !.pc = "save_thumbnail", !.rendered = <<thumbnail>>]
                    ELSE [@ EXCEPT !.pc = "done", !.rendered = <<thumbnail>>,
                                   !.status = SuccessStatus(wk[w].kind)]]
    /\ UNCHANGED <<rows, nextId, gpxStore, tags, routeTags, startPoints,
                   asyncQ, deferredQ, web, cmd, hist>>

\* route.thumbnail_image.save(thumb_filename, thumbnail, save=True): the file goes to
\* storage under a fresh name (here the number of the write) and the instance is saved
\* whole, every column from the task's copy; Model.save() inserts the row when the
\* UPDATE finds none
SaveThumbnail(w) ==
    /\ wk[w].pc = "save_thumbnail"
    /\ LET saved == [wk[w].route EXCEPT
                        !.thumbnail_image = Count(hist.thumbWrites[wk[w].rid] + 1)]
       IN  /\ rows' = IF Exists(wk[w].rid)
                      THEN [rows EXCEPT ![wk[w].rid] = saved]
                      ELSE rows @@ (wk[w].rid :> saved)
           /\ wk' = [wk EXCEPT ![w].pc = "done", ![w].route = saved,
                               ![w].status = SuccessStatus(wk[w].kind)]
    /\ hist' = [hist EXCEPT !.thumbWrites[wk[w].rid] = Count(@ + 1)]
    /\ UNCHANGED <<nextId, gpxStore, tags, routeTags, startPoints, asyncQ, deferredQ,
                   web, cmd>>

\* the task's result is handed to the task backend and the worker is free again
Release(w) ==
    /\ wk[w].pc = "done"
    /\ wk' = [wk EXCEPT ![w] = IdleWorker]
    /\ hist' = IF wk[w].rid \in Ids
               THEN [hist EXCEPT !.ran[wk[w].rid] = (wk[w].kind = "async")]
               ELSE hist
    /\ UNCHANGED <<rows, nextId, gpxStore, tags, routeTags, startPoints,
                   asyncQ, deferredQ, web, cmd>>

(***************************************************************************)
(* The update_start_locations command (update_start_locations.py:37-168).  *)
(* The queryset is read once, when the loop starts; each iteration works   *)
(* on the copy read then.                                                  *)
(***************************************************************************)
\* Selected without the filter start_location=""
SelectedEvery(all) ==
    {i \in DOMAIN rows : rows[i].start_lat # None /\ rows[i].start_lon # None}

\* the filters of lines 44-54
Selected(all) ==
    {i \in DOMAIN rows :
        /\ rows[i].start_lat # None
        /\ rows[i].start_lon # None
        /\ all \/ rows[i].start_location = EmptyStr}

\* the selected rows, newest first (Meta.ordering), from primary key k downwards
RECURSIVE Snapshot(_, _)
Snapshot(k, all) ==
    IF k = 0 THEN << >>
    ELSE (IF k \in Selected(all)
          THEN <<[id |-> k, start_lat |-> rows[k].start_lat,
                  start_lon |-> rows[k].start_lon,
                  start_location |-> rows[k].start_location]>>
          ELSE << >>) \o Snapshot(k - 1, all)

CmdStart(all, force, dry) ==
    /\ cmd.pc = "idle"
    /\ cmd' = IF Selected(all) = {}
              THEN IdleCmd
              ELSE [pc |-> "loop", all |-> all, force |-> force, dry |-> dry,
                    todo |-> Snapshot(MaxRoutes, all)]
    /\ UNCHANGED <<rows, nextId, gpxStore, tags, routeTags, startPoints,
                   asyncQ, deferredQ, web, wk, hist>>

\* CmdSaves of a command that saves under --dry-run as well
CmdSavesWet(route, force, dry) ==
    LET old_location == route.start_location
        geocodes == {get_location_name(route.start_lat[1], route.start_lon[1], resp) :
                        resp \in Responses}
    IN  {<< >>}
        \cup {IF hit # {}
              THEN IF (CHOOSE sp \in hit : TRUE).name # old_location
                   THEN <<(CHOOSE sp \in hit : TRUE).name>>
                   ELSE << >>
              ELSE << >> :
                hit \in MatchResults(route.start_lat[1], route.start_lon[1])}
        \cup (IF /\ {} \in MatchResults(route.start_lat[1], route.start_lon[1])
                 /\ force
                 /\ _is_coordinate_string(old_location)
              THEN {IF NonEmpty(g) /\ g # old_location THEN <<g>> ELSE << >> :
                        g \in geocodes}
              ELSE {})

\* what one iteration (lines 74-155) may save for the copy route: << >> when it saves
\* nothing, <<new_location>> when it calls route.save(update_fields=["start_location"])
CmdSaves(route, force, dry) ==
    LET old_location == route.start_location
        geocodes == {get_location_name(route.start_lat[1], route.start_lon[1], resp) :
                        resp \in Responses}
    IN  {<< >>}   \* the matcher raised: counted as an error
        \cup {IF hit # {}
              THEN IF (CHOOSE sp \in hit : TRUE).name # old_location /\ ~dry
                   THEN <<(CHOOSE sp \in hit : TRUE).name>>
                   ELSE << >>
              ELSE << >> :
                hit \in MatchResults(route.start_lat[1], route.start_lon[1])}
        \cup (IF /\ {} \in MatchResults(route.start_lat[1], route.start_lon[1])
                 /\ force
                 /\ _is_coordinate_string(old_location)
              THEN {IF NonEmpty(g) /\ g # old_location /\ ~dry THEN <<g>> ELSE << >> :
                        g \in geocodes}
              ELSE {})

CmdStep ==
    /\ cmd.pc = "loop"
    /\ \E out \in CmdSaves(Head(cmd.todo), cmd.force, cmd.dry) :
        IF out # << >> /\ Exists(Head(cmd.todo).id)
        THEN /\ rows' = [rows EXCEPT ![Head(cmd.todo).id].start_location = out[1]]
             /\ hist' = [hist EXCEPT !.locWrites[Head(cmd.todo).id] = Count(@ + 1),
                                      !.ran[Head(cmd.todo).id] = FALSE]
        ELSE UNCHANGED <<rows, hist>>
    /\ cmd' = IF Tail(cmd.todo) = << >> THEN IdleCmd ELSE [cmd EXCEPT !.todo = Tail(@)]
    /\ UNCHANGED <<nextId, gpxStore, tags, routeTags, startPoints,
                   asyncQ, deferredQ, web, wk>>

(***************************************************************************)
(* Specifications.  The processes are the web request, the workers and the *)
(* command.  Spec interleaves their steps, and the steps of the other      *)
(* actors, freely, with at most MaxConcurrent processes in the middle of   *)
(* an operation.  SpecSeq runs one operation at a time: an operation       *)
(* starts, and another actor acts, only while no process is in the middle  *)
(* of an operation.                                                        *)
(***************************************************************************)
Running ==
    {<<"worker", w>> : w \in {v \in Workers : wk[v].pc # "idle"}}
    \cup (IF web.pc # "idle" THEN {<<"web", 0>>} ELSE {})
    \cup (IF cmd.pc # "idle" THEN {<<"cmd", 0>>} ELSE {})

Next ==
    \/ UNCHANGED aux /\ Cardinality(Running) < MaxConcurrent /\ CreatePersist
    \/ UNCHANGED aux /\ CreateTagsEnqueue
    \/ UNCHANGED aux /\ QueueDeferred
    \/ UNCHANGED aux /\ \E id \in Ids : Invoke(id)
    \/ UNCHANGED aux /\ \E id \in Ids : DeleteRoute(id)
    \/ UNCHANGED aux /\ \E sp \in AllStartPoints : AddStartPoint(sp)
    \/ UNCHANGED aux /\ Cardinality(Running) < MaxConcurrent /\ \E w \in Workers : AsyncGet(w)
    \/ UNCHANGED aux /\ Cardinality(Running) < MaxConcurrent /\ \E w \in Workers : DeferredCreate(w)
    \/ UNCHANGED aux /\ \E w \in Workers : DeferredTags(w)
    \/ UNCHANGED aux /\ \E w \in Workers : Locate(w)
    \/ UNCHANGED aux /\ \E w \in Workers : Geocode(w)
    \/ UNCHANGED aux /\ \E w \in Workers : SaveLocation(w)
    \/ UNCHANGED aux /\ \E w \in Workers : Render(w)
    \/ UNCHANGED aux /\ \E w \in Workers : SaveThumbnail(w)
    \/ UNCHANGED aux /\ \E w \in Workers : Release(w)
    \/ UNCHANGED aux /\ Cardinality(Running) < MaxConcurrent
            /\ \E all \in BOOLEAN, force \in BOOLEAN, dry \in BOOLEAN :
                    CmdStart(all, force, dry)
    \/ UNCHANGED aux /\ CmdStep

Spec == Init /\ [][Next]_vars

NextSeq ==
    \/ UNCHANGED aux /\ Running = {} /\ CreatePersist
    \/ UNCHANGED aux /\ CreateTagsEnqueue
    \/ UNCHANGED aux /\ Running = {} /\ QueueDeferred
    \/ UNCHANGED aux /\ Running = {} /\ \E id \in Ids : Invoke(id)
    \/ UNCHANGED aux /\ Running = {} /\ \E id \in Ids : DeleteRoute(id)
    \/ UNCHANGED aux /\ Running = {} /\ \E sp \in AllStartPoints : AddStartPoint(sp)
    \/ UNCHANGED aux /\ Running = {} /\ \E w \in Workers : AsyncGet(w)
    \/ UNCHANGED aux /\ Running = {} /\ \E w \in Workers : DeferredCreate(w)
    \/ UNCHANGED aux /\ \E w \in Workers : DeferredTags(w)
    \/ UNCHANGED aux /\ \E w \in Workers : Locate(w)
    \/ UNCHANGED aux /\ \E w \in Workers : Geocode(w)
    \/ UNCHANGED aux /\ \E w \in Workers : SaveLocation(w)
    \/ UNCHANGED aux /\ \E w \in Workers : Render(w)
    \/ UNCHANGED aux /\ \E w \in Workers : SaveThumbnail(w)
    \/ UNCHANGED aux /\ \E w \in Workers : Release(w)
    \/ UNCHANGED aux /\ Running = {}
            /\ \E all \in BOOLEAN, force \in BOOLEAN, dry \in BOOLEAN :
                    CmdStart(all, force, dry)
    \/ UNCHANGED aux /\ CmdStep

SpecSeq == Init /\ [][NextSeq]_vars

(***************************************************************************)
(* Bulk processing of a batch of files.  bulk_upload (views.py:152-228)    *)
(* handles the files of one request in a loop; queue_route_from_gpx        *)
(* (services.py:74-110) called for each file leaves one                    *)
(* process_route_deferred task per file.  SpecBulk runs one batch, by one  *)
(* of the two.  bulk.results is the history of the files handled: the file *)
(* name and the primary key of the row made for it (0 when none).          *)
(***************************************************************************)
MaxBatch == 2       \* files in one batch

BulkFiles ==
    {[doc |-> DocBad, fname |-> <<"b", ".gpx">>, override |-> EmptyStr],
     [doc |-> DocTrack, fname |-> <<"a", ".gpx">>, override |-> EmptyStr],
     [doc |-> NoDoc, fname |-> <<"c", ".gpx">>, override |-> EmptyStr]}

Wellformed(files) == {k \in 1..Len(files) : files[k].doc.wellformed}

\* the batches: at most MaxBatch different files, no more of them parseable than the
\* Route table has room for
Batches ==
    {b \in UNION {[1..n -> BulkFiles] : n \in 0..MaxBatch} :
        /\ \A j, k \in 1..Len(b) : b[j] = b[k] => j = k
        /\ Cardinality(Wellformed(b)) <= MaxRoutes}

\* views.py:160: [t.strip() for t in default_tags.split(",") if t.strip()]
RECURSIVE StripAll(_)
StripAll(names) ==
    IF names = << >> THEN << >>
    ELSE (IF Strip(Head(names)) = EmptyStr THEN << >> ELSE <<Strip(Head(names))>>)
         \o StripAll(Tail(names))

\* AfterFailure of a loop whose body has no handler: the exception ends the request
AfterFailureAbort(todo) == << >>

\* views.py:165-216: the try is inside the loop, so after a file that raised the loop
\* goes on with the files that follow
AfterFailure(todo) == Tail(todo)

BulkStart(mode) ==
    /\ bulk.pc = "idle"
    /\ \E batch \in Batches, tag_names \in TagLists :
        /\ bulk' = [IdleBulk EXCEPT !.pc = mode, !.batch = batch, !.todo = batch,
                                    !.tag_list = IF mode = "view" THEN StripAll(tag_names)
                                                 ELSE tag_names]
        /\ deferredQ' = IF mode = "tasks" THEN Len(batch) ELSE deferredQ
    /\ UNCHANGED <<rows, nextId, gpxStore, tags, routeTags, startPoints,
                   asyncQ, web, wk, cmd, hist>>

\* views.py:166-216: one iteration of the loop of bulk_upload
BulkViewFile ==
    /\ bulk.pc = "view"
    /\ bulk.todo # << >>
    /\ LET gpx_file == Head(bulk.todo)
       IN  IF ~gpx_file.doc.wellformed
           THEN /\ bulk' = [bulk EXCEPT !.todo = AfterFailure(@),
                                        !.failed_files = Append(@, gpx_file.fname),
                                        !.results = @ \cup {[fname |-> gpx_file.fname,
                                                             rid |-> 0]}]
                /\ UNCHANGED <<rows, nextId, gpxStore, tags, routeTags, hist>>
           ELSE /\ nextId <= MaxRoutes
                /\ \E resp \in Responses, primary \in PrimaryOutcomes, fallbackOk \in BOOLEAN :
                    LET gpx_data == parse_gpx(gpx_file.doc)
                        start_location ==
                            IF Truthy(gpx_data.start_lat) /\ Truthy(gpx_data.start_lon)
                            THEN get_location_name(gpx_data.start_lat[1],
                                                   gpx_data.start_lon[1], resp)
                            ELSE EmptyStr
                        thumbnail ==
                            generate_static_map_image(gpx_data.points, primary, fallbackOk)
                        route ==
                            [NewRoute(ResolveName(EmptyStr, gpx_data.name, gpx_file.fname),
                                      gpx_data, gpx_file.fname)
                                EXCEPT !.route_coordinates = << >>,
                                       !.start_location = start_location,
                                       !.thumbnail_image = IF thumbnail # None THEN 1 ELSE 0]
                        res == AttachTags(bulk.tag_list, tags, {}, TRUE)
                    IN  /\ rows' = rows @@ (nextId :> route)
                        /\ nextId' = nextId + 1
                        /\ gpxStore' = gpxStore + 1
                        /\ tags' = res.tags
                        /\ routeTags' = [routeTags EXCEPT ![nextId] = res.rtags]
                        /\ hist' = [hist EXCEPT
                                !.locWrites[nextId] = IF NonEmpty(start_location) THEN 1 ELSE 0,
                                !.thumbWrites[nextId] = IF thumbnail # None THEN 1 ELSE 0]
                        /\ bulk' = [bulk EXCEPT
                                !.todo = IF res.raised THEN AfterFailure(@) ELSE Tail(@),
                                !.uploaded_count = IF res.raised THEN @ ELSE @ + 1,
                                !.failed_files = IF res.raised
                                                 THEN Append(@, gpx_file.fname) ELSE @,
                                !.results = @ \cup {[fname |-> gpx_file.fname,
                                                     rid |-> nextId]}]
    /\ UNCHANGED <<startPoints, asyncQ, deferredQ, web, wk, cmd>>

\* views.py:218-226: the messages and the redirect
BulkViewEnd ==
    /\ bulk.pc = "view"
    /\ bulk.todo = << >>
    /\ bulk' = [bulk EXCEPT !.pc = "done"]
    /\ UNCHANGED db

\* a worker takes the task of the next file of the batch
BulkTaskCreate(w) ==
    /\ bulk.pc = "tasks"
    /\ bulk.todo # << >>
    /\ DeferredCreateOf(w, Head(bulk.todo))
    /\ bulk' = [bulk EXCEPT !.todo = Tail(@)]

BulkTaskTags(w) ==
    /\ bulk.pc = "tasks"
    /\ DeferredTagsOf(w, bulk.tag_list)
    /\ UNCHANGED bulk

\* the task's result string ("Created and processed route {id}", or "Error creating
\* route from {file_name}: ...") reaches whoever collects the results of the batch
BulkTaskRelease(w) ==
    /\ bulk.pc = "tasks"
    /\ Release(w)
    /\ bulk' = [bulk EXCEPT
            !.uploaded_count = IF wk[w].status = "created_and_processed" THEN @ + 1 ELSE @,
            !.failed_files = IF wk[w].status = "error_creating"
                             THEN Append(@, wk[w].fname) ELSE @,
            !.results = @ \cup {[fname |-> wk[w].fname, rid |-> wk[w].rid]}]

NextBulk ==
    \/ UNCHANGED <<geo, probe, regen>> /\ \E mode \in {"view", "tasks"} : BulkStart(mode)
    \/ UNCHANGED <<geo, probe, regen>> /\ BulkViewFile
    \/ UNCHANGED <<geo, probe, regen>> /\ BulkViewEnd
    \/ UNCHANGED aux /\ \E sp \in AllStartPoints : AddStartPoint(sp)
    \/ UNCHANGED <<geo, probe, regen>> /\ \E w \in Workers : BulkTaskCreate(w)
    \/ UNCHANGED <<geo, probe, regen>> /\ \E w \in Workers : BulkTaskTags(w)
    \/ UNCHANGED aux /\ \E w \in Workers : Locate(w)
    \/ UNCHANGED aux /\ \E w \in Workers : Geocode(w)
    \/ UNCHANGED aux /\ \E w \in Workers : SaveLocation(w)
    \/ UNCHANGED aux /\ \E w \in Workers : Render(w)
    \/ UNCHANGED aux /\ \E w \in Workers : SaveThumbnail(w)
    \/ UNCHANGED <<geo, probe, regen>> /\ \E w \in Workers : BulkTaskRelease(w)

SpecBulk == Init /\ [][NextBulk]_vars

(***************************************************************************)
(* One upload taken through the pipeline twice, each time from the same    *)
(* database and with the same behaviour of matcher, geocoder and renderer  *)
(* (all in probe).  The first pass is create_route_from_gpx and the        *)
(* process_route_async it enqueues, uninterrupted.  The second pass is, by *)
(* probe.mode, queue_route_from_gpx and its process_route_deferred         *)
(* ("deferred"), or either path with the task killed at some point and     *)
(* process_route_async run again afterwards ("killed_async",               *)
(* "killed_deferred").  probe.first keeps what the first pass left.        *)
(***************************************************************************)
\* what a pass leaves: the Route table (a thumbnail by its presence) and its tags
Outcome ==
    [row |-> [i \in DOMAIN rows |->
                [rows[i] EXCEPT !.thumbnail_image = IF @ = 0 THEN 0 ELSE 1]],
     tags |-> routeTags]

\* nothing is running and nothing is queued
Quiet ==
    /\ Running = {}
    /\ deferredQ = 0
    /\ \A i \in Ids : asyncQ[i] = 0

InitTwin ==
    /\ InitDb
    /\ bulk = IdleBulk
    /\ geo = NoCalls
    /\ regen = IdleRegen
    /\ \E up \in Uploads, tag_names \in TagLists, matcherRaises \in BOOLEAN,
          resp \in Responses, primary \in PrimaryOutcomes, fallbackOk \in BOOLEAN,
          mode \in {"deferred", "killed_async", "killed_deferred"} :
        probe = [up |-> up, tag_names |-> tag_names, matcherRaises |-> matcherRaises,
                 resp |-> resp, primary |-> primary, fallbackOk |-> fallbackOk,
                 mode |-> mode, phase |-> "start", first |-> << >>,
                 killed |-> FALSE, rerun |-> FALSE]

\* the start of a pass by the eager path
TwinCreate ==
    /\ \/ probe.phase = "start" /\ probe' = [probe EXCEPT !.phase = "first"]
       \/ /\ probe.phase = "reset"
          /\ probe.mode = "killed_async"
          /\ probe' = [probe EXCEPT !.phase = "second"]
    /\ CreatePersistOf(probe.up)

\* the start of a pass by the deferred path
TwinQueue ==
    /\ probe.phase = "reset"
    /\ probe.mode # "killed_async"
    /\ probe' = [probe EXCEPT !.phase = "second"]
    /\ QueueDeferred

\* the matcher, the geocoder and the renderer behave as probe says
LocateAs(w) ==
    /\ Locate(w)
    /\ (wk'[w].matched = <<"raised">>) = (NeedsLocation(wk[w]) /\ probe.matcherRaises)

GeocodeAs(w) ==
    /\ Geocode(w)
    /\ wk'[w].geocoded = <<get_location_name(wk[w].route.start_lat[1],
                                             wk[w].route.start_lon[1], probe.resp)>>

RenderAs(w) ==
    /\ Render(w)
    /\ NeedsThumbnail(wk[w]) =>
            wk'[w].rendered = <<generate_static_map_image(wk[w].route.route_coordinates,
                                                          probe.primary, probe.fallbackOk)>>

\* the first pass is over: its outcome is kept and the database is emptied
TwinReset ==
    /\ probe.phase = "first"
    /\ Quiet
    /\ probe' = [probe EXCEPT !.phase = "reset", !.first = Outcome]
    /\ rows' = << >>
    /\ nextId' = 1
    /\ gpxStore' = 0
    /\ tags' = {}
    /\ routeTags' = [i \in Ids |-> {}]
    /\ web' = IdleWeb
    /\ hist' = [enq |-> [i \in Ids |-> 0],
                eager |-> {},
                locWrites |-> [i \in Ids |-> 0],
                thumbWrites |-> [i \in Ids |-> 0],
                ran |-> [i \in Ids |-> FALSE]]
    /\ UNCHANGED <<startPoints, asyncQ, deferredQ, wk, cmd, bulk, geo, regen>>

\* the worker's process is killed in the middle of a task: the task is gone, what it
\* wrote stays
Kill(w) ==
    /\ wk[w].pc # "idle"
    /\ wk' = [wk EXCEPT ![w] = IdleWorker]
    /\ UNCHANGED <<rows, nextId, gpxStore, tags, routeTags, startPoints,
                   asyncQ, deferredQ, web, cmd, hist>>

TwinKill(w) ==
    /\ probe.phase = "second"
    /\ probe.mode # "deferred"
    /\ ~probe.killed
    /\ wk[w].kind = (IF probe.mode = "killed_async" THEN "async" ELSE "deferred")
    /\ Kill(w)
    /\ probe' = [probe EXCEPT !.killed = TRUE]

\* process_route_async is run again on the record of the killed task
TwinRerun(id) ==
    /\ probe.killed
    /\ ~probe.rerun
    /\ Quiet
    /\ Exists(id)
    /\ Invoke(id)
    /\ probe' = [probe EXCEPT !.rerun = TRUE]

NextTwin ==
    \/ UNCHANGED <<bulk, geo, regen>> /\ TwinCreate
    \/ UNCHANGED aux /\ CreateTagsEnqueueOf(probe.tag_names)
    \/ UNCHANGED <<bulk, geo, regen>> /\ TwinQueue
    \/ UNCHANGED aux /\ \E w \in Workers : AsyncGet(w)
    \/ UNCHANGED aux /\ \E w \in Workers : DeferredCreateOf(w, probe.up)
    \/ UNCHANGED aux /\ \E w \in Workers : DeferredTagsOf(w, probe.tag_names)
    \/ UNCHANGED aux /\ \E w \in Workers : LocateAs(w)
    \/ UNCHANGED aux /\ \E w \in Workers : GeocodeAs(w)
    \/ UNCHANGED aux /\ \E w \in Workers : SaveLocation(w)
    \/ UNCHANGED aux /\ \E w \in Workers : RenderAs(w)
    \/ UNCHANGED aux /\ \E w \in Workers : SaveThumbnail(w)
    \/ UNCHANGED aux /\ \E w \in Workers : Release(w)
    \/ TwinReset
    \/ UNCHANGED <<bulk, geo, regen>> /\ \E w \in Workers : TwinKill(w)
    \/ UNCHANGED <<bulk, geo, regen>> /\ \E id \in Ids : TwinRerun(id)
    \/ UNCHANGED aux /\ \E sp \in AllStartPoints : probe.phase = "start" /\ AddStartPoint(sp)

SpecTwin == InitTwin /\ [][NextTwin]_vars

(***************************************************************************)
(* The reverse geocoder's calls in time.  SpecClock is SpecSeq with the    *)
(* time between the calls of get_location_name: the tasks call it and go   *)
(* on (tasks.py:35, 117), the command sleeps one second after its call     *)
(* (update_start_locations.py:113-115).                                    *)
(***************************************************************************)
\* get_location_name is called
Called(g) == [recent |-> TRUE, burst |-> g.recent]

\* a second passes in which the geocoder is not called
Tick ==
    /\ geo.recent
    /\ geo' = [geo EXCEPT !.recent = FALSE]
    /\ UNCHANGED db

GeocodeTimed(w) ==
    /\ Geocode(w)
    /\ geo' = Called(geo)

\* one iteration of the command; it calls the geocoder when the matcher returned none,
\* --force-geocode is given and the location is empty or a coordinate string, and then
\* sleeps
CmdStepTimed ==
    /\ CmdStep
    /\ LET route == Head(cmd.todo)
           mayCall == /\ {} \in MatchResults(route.start_lat[1], route.start_lon[1])
                      /\ cmd.force
                      /\ _is_coordinate_string(route.start_location)
       IN  \/ mayCall /\ geo' = [Called(geo) EXCEPT !.recent = FALSE]
           \/ (~mayCall \/ rows' = rows) /\ geo' = geo

NextClock ==
    \/ UNCHANGED <<bulk, probe, regen>> /\ Tick
    \/ UNCHANGED aux /\ Running = {} /\ CreatePersist
    \/ UNCHANGED aux /\ CreateTagsEnqueue
    \/ UNCHANGED aux /\ Running = {} /\ QueueDeferred
    \/ UNCHANGED aux /\ Running = {} /\ \E id \in Ids : Invoke(id)
    \/ UNCHANGED aux /\ Running = {} /\ \E sp \in AllStartPoints : AddStartPoint(sp)
    \/ UNCHANGED aux /\ Running = {} /\ \E w \in Workers : AsyncGet(w)
    \/ UNCHANGED aux /\ Running = {} /\ \E w \in Workers : DeferredCreate(w)
    \/ UNCHANGED aux /\ \E w \in Workers : DeferredTags(w)
    \/ UNCHANGED aux /\ \E w \in Workers : Locate(w)
    \/ UNCHANGED <<bulk, probe, regen>> /\ \E w \in Workers : GeocodeTimed(w)
    \/ UNCHANGED aux /\ \E w \in Workers : SaveLocation(w)
    \/ UNCHANGED aux /\ \E w \in Workers : Render(w)
    \/ UNCHANGED aux /\ \E w \in Workers : SaveThumbnail(w)
    \/ UNCHANGED aux /\ \E w \in Workers : Release(w)
    \/ UNCHANGED aux /\ Running = {}
            /\ \E all \in BOOLEAN, force \in BOOLEAN, dry \in BOOLEAN :
                    CmdStart(all, force, dry)
    \/ UNCHANGED <<bulk, probe, regen>> /\ CmdStepTimed

SpecClock == Init /\ [][NextClock]_vars

(***************************************************************************)
(* Route.share_token (models.py:82, 90-95).  SpecToken follows the token   *)
(* column alone through the saves the program makes: probe.table is the    *)
(* Route table (share_token, start_location, and as history the token the  *)
(* caller gave), probe.copy the instance a task or a command holds.        *)
(* A token is a sequence of characters; md5(...).hexdigest() is one of     *)
(* Digests, 32 characters long.                                            *)
(***************************************************************************)
MaxTokenRoutes == 2     \* routes of the token study

Digests == {[k \in 1..32 |-> c] : c \in {"0", "f"}}

\* RouteSaveToken of a save that makes a new token every time
RouteSaveTokenFresh(share_token, digest) == SubSeq(digest, 1, 16)

\* models.py:91-94: the token an instance has after Route.save
RouteSaveToken(share_token, digest) ==
    IF share_token = EmptyStr THEN SubSeq(digest, 1, 16) ELSE share_token

\* the tokens a caller may give: none, one of its own, one that a digest also gives
GivenTokens == {EmptyStr, <<"m", "y">>, [k \in 1..16 |-> "0"]}

\* unique=True: no other row holds the token
TokenFree(id, token) ==
    \A j \in DOMAIN probe.table \ {id} : probe.table[j].share_token # token

InitToken ==
    /\ InitDb
    /\ bulk = IdleBulk
    /\ geo = NoCalls
    /\ regen = IdleRegen
    /\ probe = [table |-> << >>, next |-> 1, copy |-> << >>]

\* Route(name=..., share_token=given).save(): the first save, an INSERT
TokenCreate(given, digest) ==
    /\ probe.next <= MaxTokenRoutes
    /\ LET token == RouteSaveToken(given, digest)
       IN  probe' = IF TokenFree(probe.next, token)
                    THEN [probe EXCEPT
                            !.table = @ @@ (probe.next :>
                                [share_token |-> token, start_location |-> EmptyStr,
                                 given |-> given]),
                            !.next = @ + 1]
                    ELSE probe   \* IntegrityError
    /\ UNCHANGED db

\* Route.objects.get(pk=id): a task or a command reads the row into memory
TokenRead(id) ==
    /\ id \in DOMAIN probe.table
    /\ probe.copy # <<id, probe.table[id]>>
    /\ probe' = [probe EXCEPT !.copy = <<id, probe.table[id]>>]
    /\ UNCHANGED db

\* route.save(update_fields=["start_location"]) on the copy: the token column is not
\* written
TokenSaveFields(digest, location) ==
    /\ probe.copy # << >>
    /\ LET id == probe.copy[1]
           saved == [probe.copy[2] EXCEPT !.share_token = RouteSaveToken(@, digest),
                                          !.start_location = location]
       IN  probe' = [probe EXCEPT
                !.copy = <<id, saved>>,
                !.table = IF id \in DOMAIN @
                          THEN [@ EXCEPT ![id].start_location = location]
                          ELSE @]   \* DatabaseError
    /\ UNCHANGED db

\* the save of every column from the copy (thumbnail_image.save(..., save=True), a
\* re-save): an UPDATE, or an INSERT when the row is gone
TokenSaveAll(digest) ==
    /\ probe.copy # << >>
    /\ LET id == probe.copy[1]
           saved == [probe.copy[2] EXCEPT !.share_token = RouteSaveToken(@, digest)]
       IN  /\ TokenFree(id, saved.share_token)
           /\ probe' = [probe EXCEPT
                    !.copy = <<id, saved>>,
                    !.table = IF id \in DOMAIN @
                              THEN [@ EXCEPT ![id] = saved]
                              ELSE @ @@ (id :> saved)]
    /\ UNCHANGED db

TokenDelete(id) ==
    /\ id \in DOMAIN probe.table
    /\ probe' = [probe EXCEPT !.table = [j \in DOMAIN @ \ {id} |-> @[j]]]
    /\ UNCHANGED db

NextToken ==
    \/ UNCHANGED <<bulk, geo, regen>> /\ \E given \in GivenTokens, digest \in Digests :
                                        TokenCreate(given, digest)
    \/ UNCHANGED <<bulk, geo, regen>> /\ \E id \in 1..MaxTokenRoutes : TokenRead(id)
    \/ UNCHANGED <<bulk, geo, regen>> /\ \E digest \in Digests, location \in {EmptyStr, <<"Town">>} :
                                        TokenSaveFields(digest, location)
    \/ UNCHANGED <<bulk, geo, regen>> /\ \E digest \in Digests : TokenSaveAll(digest)
    \/ UNCHANGED <<bulk, geo, regen>> /\ \E id \in 1..MaxTokenRoutes : TokenDelete(id)

SpecToken == InitToken /\ [][NextToken]_vars

(***************************************************************************)
(* The functions of utils.py on their own.  SpecPure stores StartPoints    *)
(* and then calls one function once; probe holds the call's arguments and  *)
(* its result.                                                             *)
(***************************************************************************)
Trk(name, segments) == [name |-> name, segments |-> segments, len3d |-> 1, uphill |-> 0]
Rte(name, points) == [name |-> name, points |-> points, len3d |-> 1, uphill |-> 0]

\* documents with every combination of sources; no point lies in two sources
Docs ==
    {[wellformed |-> TRUE, tracks |-> t, routes |-> r, waypoints |-> wp] :
        t \in {<< >>,
               <<Trk(<<"Empty">>, << << >> >>)>>,
               <<Trk(EmptyStr, << << <<1, 1>>, <<2, 1>> >> >>)>>,
               <<Trk(EmptyStr, << << <<1, 1>> >> >>),
                 Trk(<<"Second">>, << << <<0, 1>> >>, << <<2, 1>> >> >>)>>},
        r \in {<< >>,
               <<Rte(<<"Plan">>, << >>)>>,
               <<Rte(<<"Plan">>, << <<2, 2>>, <<0, 2>> >>), Rte(EmptyStr, << <<1, 2>> >>)>>},
        wp \in {<< >>, << <<0, 0>>, <<2, 0>> >>}}

Candidates ==
    {[name |-> <<"Park">>, latitude |-> 1, longitude |-> 1],
     [name |-> <<"Lot">>, latitude |-> 1, longitude |-> 0],
     [name |-> <<"Gate">>, latitude |-> 2, longitude |-> 2]}

GeoResponses ==
    Responses
    \cup {[NoResp EXCEPT !.malformed = TRUE],
          [NoResp EXCEPT !.status_code = 404, !.display_name = <<"Nowhere">>],
          [NoResp EXCEPT !.display_name = <<"Somewhere">>],
          [NoResp EXCEPT !.road = <<"Road">>, !.town = <<"Town">>, !.village = <<"Village">>,
                         !.state = <<"State">>]}
    \cup {[NoResp EXCEPT !.road = road, !.city = city, !.town = town,
                         !.village = village, !.state = state,
                         !.display_name = <<"Somewhere">>] :
            road \in {EmptyStr, <<"Road">>}, city \in {EmptyStr, <<"City">>},
            town \in {EmptyStr, <<"Town">>}, village \in {EmptyStr, <<"Village">>},
            state \in {EmptyStr, <<"State">>}}

InitPure ==
    /\ InitDb
    /\ bulk = IdleBulk
    /\ geo = NoCalls
    /\ regen = IdleRegen
    /\ probe = [fn |-> "none"]

PureAddStartPoint ==
    /\ probe.fn = "none"
    /\ \E sp \in Candidates : AddStartPoint(sp)

ApplyParse ==
    /\ probe.fn = "none"
    /\ \E doc \in Docs :
        probe' = [fn |-> "parse_gpx", doc |-> doc, result |-> parse_gpx(doc)]
    /\ UNCHANGED db

ApplyMatch ==
    /\ probe.fn = "none"
    /\ \E lat \in Coords, lon \in Coords, max_distance_meters \in {0, 250, 500} :
        probe' = [fn |-> "find_closest_start_point", lat |-> lat, lon |-> lon,
                  max_distance_meters |-> max_distance_meters,
                  result |-> find_closest_start_point(lat, lon, max_distance_meters,
                                                      startPoints),
                  pipeline |-> MatchResults(lat, lon)]
    /\ UNCHANGED db

ApplyGeocode ==
    /\ probe.fn = "none"
    /\ \E lat \in -1..1, lon \in -1..1, resp \in GeoResponses :
        probe' = [fn |-> "get_location_name", lat |-> lat, lon |-> lon, resp |-> resp,
                  result |-> get_location_name(lat, lon, resp)]
    /\ UNCHANGED db

ApplyRender ==
    /\ probe.fn = "none"
    /\ \E points \in {<< >>, << <<1, 1>> >>, << <<1, 1>>, <<2, 1>> >>}, primary \in PrimaryOutcomes, fallbackOk \in BOOLEAN :
        probe' = [fn |-> "generate_static_map_image", points |-> points,
                  primary |-> primary, fallbackOk |-> fallbackOk,
                  invoked |-> Invoked(points, primary),
                  result |-> generate_static_map_image(points, primary, fallbackOk)]
    /\ UNCHANGED db

\* queue_route_from_gpx, before the function under study is called
PureQueue ==
    /\ probe.fn = "none"
    /\ QueueDeferred

\* an upload of a document by either way of ingestion: create_route_from_gpx
\* (services.py:39-58) or process_route_deferred (tasks.py:74-95)
ApplyIngest ==
    /\ probe.fn = "none"
    /\ \E doc \in Docs :
        LET up == [doc |-> doc, fname |-> <<"a", ".gpx">>, override |-> EmptyStr]
        IN  /\ \/ CreatePersistOf(up)
               \/ \E w \in Workers : DeferredCreateOf(w, up)
            /\ probe' = [fn |-> "ingest", doc |-> doc, result |-> parse_gpx(doc)]

NextPure ==
    \/ UNCHANGED aux /\ PureAddStartPoint
    \/ UNCHANGED aux /\ PureQueue
    \/ UNCHANGED <<bulk, geo, regen>> /\ ApplyIngest
    \/ UNCHANGED <<bulk, geo, regen>> /\ ApplyParse
    \/ UNCHANGED <<bulk, geo, regen>> /\ ApplyMatch
    \/ UNCHANGED <<bulk, geo, regen>> /\ ApplyGeocode
    \/ UNCHANGED <<bulk, geo, regen>> /\ ApplyRender

SpecPure == InitPure /\ [][NextPure]_vars

(***************************************************************************)
(* The regenerate_thumbnails command (regenerate_thumbnails.py:31-157).    *)
(* The queryset is read when the loop starts and each iteration works on   *)
(* the copy read then.  route_id 0 stands for a run without --route-id.    *)
(* The renderer is generate_static_map_image, or a renderer that raises.   *)
(***************************************************************************)
\* the filters of lines 39-60; route_coordinates is never NULL (models.py:73-75)
RegenSelected(all, force, route_id) ==
    IF route_id # 0
    THEN {i \in DOMAIN rows : i = route_id}
    ELSE IF all \/ force
    THEN {i \in DOMAIN rows : rows[i].route_coordinates # << >>}
    ELSE {i \in DOMAIN rows :
            rows[i].route_coordinates # << >> /\ rows[i].thumbnail_image # 0}

\* the selected rows, newest first (Meta.ordering), from primary key k downwards
RECURSIVE RegenSnapshot(_, _)
RegenSnapshot(k, selected) ==
    IF k = 0 THEN << >>
    ELSE (IF k \in selected
          THEN <<[id |-> k, route_coordinates |-> rows[k].route_coordinates,
                  thumbnail_image |-> rows[k].thumbnail_image]>>
          ELSE << >>) \o RegenSnapshot(k - 1, selected)

\* lines 31-69: the options, the queryset and the two early returns
RegenStart(all, force, dry, route_id) ==
    /\ regen.pc = "idle"
    /\ LET selected == RegenSelected(all, force, route_id)
           run == [IdleRegen EXCEPT !.all = all, !.force = force, !.dry = dry,
                                    !.route_id = route_id]
       IN  regen' = IF selected = {}
                    THEN [run EXCEPT !.message =
                             IF route_id # 0 THEN "not_found" ELSE "no_routes"]
                    ELSE [run EXCEPT !.pc = "loop", !.message = "processing",
                                     !.todo = RegenSnapshot(MaxRoutes, selected)]
    /\ UNCHANGED db

\* lines 75 and 84: the two tests that skip a route
RegenSkips(route, all, force) ==
    \/ ~force /\ route.thumbnail_image = 0 /\ ~all
    \/ route.route_coordinates = << >>

\* RegenDeletes of a command that deletes the old thumbnail before it looks at the
\* renderer's result
RegenDeletesFirst(route, thumbnail_file) == route.thumbnail_image # 0

\* lines 107-110: is the old thumbnail file deleted?
RegenDeletes(route, thumbnail_file) ==
    thumbnail_file # None /\ route.thumbnail_image # 0

\* lines 72-146, one iteration, and the summary of lines 148-157 after the last one.
\* route.thumbnail_image.delete(save=False) removes the old file from storage;
\* route.save(update_fields=["thumbnail_image"]) stores the new file and updates the one
\* column, and raises DatabaseError when the row is gone
RegenStep ==
    /\ regen.pc = "loop"
    /\ \E raised \in BOOLEAN, primary \in PrimaryOutcomes, fallbackOk \in BOOLEAN :
        LET route == Head(regen.todo)
            id == route.id
            thumbnail_file ==
                generate_static_map_image(route.route_coordinates, primary, fallbackOk)
            next == [regen EXCEPT
                        !.todo = Tail(@),
                        !.pc = IF Tail(regen.todo) = << >> THEN "idle" ELSE "loop",
                        !.message = IF Tail(regen.todo) = << >> THEN "summary" ELSE @]
            called == [next EXCEPT !.calls[id] = @ + 1]
        IN  IF RegenSkips(route, regen.all, regen.force)
            THEN /\ regen' = [next EXCEPT !.skipped_count = @ + 1]
                 /\ UNCHANGED <<rows, hist>>
            ELSE IF regen.dry
            THEN /\ regen' = [next EXCEPT !.success_count = @ + 1]
                 /\ UNCHANGED <<rows, hist>>
            ELSE IF raised
            THEN /\ regen' = [called EXCEPT !.returned[id] = "raised",
                                            !.error_count = @ + 1]
                 /\ UNCHANGED <<rows, hist>>
            ELSE IF thumbnail_file = None
            THEN /\ regen' = [called EXCEPT
                                    !.returned[id] = "nothing",
                                    !.deleted = IF RegenDeletes(route, thumbnail_file)
                                                THEN @ \cup {id} ELSE @,
                                    !.error_count = @ + 1]
                 /\ UNCHANGED <<rows, hist>>
            ELSE LET stored == [called EXCEPT
                                    !.returned[id] = "image",
                                    !.deleted = IF RegenDeletes(route, thumbnail_file)
                                                THEN @ \cup {id} ELSE @]
                 IN  IF Exists(id)
                     THEN /\ rows' = [rows EXCEPT ![id].thumbnail_image =
                                                    Count(hist.thumbWrites[id] + 1)]
                          /\ hist' = [hist EXCEPT !.thumbWrites[id] = Count(@ + 1),
                                                  !.ran[id] = FALSE]
                          /\ regen' = [stored EXCEPT !.success_count = @ + 1]
                     ELSE /\ regen' = [stored EXCEPT !.error_count = @ + 1]
                          /\ UNCHANGED <<rows, hist>>
    /\ UNCHANGED <<nextId, gpxStore, tags, routeTags, startPoints,
                   asyncQ, deferredQ, web, wk, cmd>>

(***************************************************************************)
(* SpecBackfill: the pipeline with its two backfill commands, one          *)
(* operation at a time; a route may be deleted while a command is in its   *)
(* loop.                                                                   *)
(***************************************************************************)
Quiescent == Running = {} /\ regen.pc = "idle"

NextBackfill ==
    \/ UNCHANGED aux /\ Quiescent /\ CreatePersist
    \/ UNCHANGED aux /\ CreateTagsEnqueue
    \/ UNCHANGED aux /\ Quiescent /\ \E id \in Ids : Invoke(id)
    \/ UNCHANGED aux /\ Running \subseteq {<<"cmd", 0>>} /\ \E id \in Ids : DeleteRoute(id)
    \/ UNCHANGED aux /\ Quiescent /\ \E sp \in AllStartPoints : AddStartPoint(sp)
    \/ UNCHANGED aux /\ Quiescent /\ \E w \in Workers : AsyncGet(w)
    \/ UNCHANGED aux /\ \E w \in Workers : Locate(w)
    \/ UNCHANGED aux /\ \E w \in Workers : Geocode(w)
    \/ UNCHANGED aux /\ \E w \in Workers : SaveLocation(w)
    \/ UNCHANGED aux /\ \E w \in Workers : Render(w)
    \/ UNCHANGED aux /\ \E w \in Workers : SaveThumbnail(w)
    \/ UNCHANGED aux /\ \E w \in Workers : Release(w)
    \/ UNCHANGED aux /\ Quiescent
            /\ \E all \in BOOLEAN, force \in BOOLEAN, dry \in BOOLEAN :
                    CmdStart(all, force, dry)
    \/ UNCHANGED aux /\ CmdStep
    \/ UNCHANGED <<bulk, geo, probe>> /\ Quiescent
            /\ \E all \in BOOLEAN, force \in BOOLEAN, dry \in BOOLEAN,
                  route_id \in {0} \cup Ids :
                    RegenStart(all, force, dry, route_id)
    \/ UNCHANGED <<bulk, geo, probe>> /\ RegenStep

SpecBackfill == Init /\ [][NextBackfill]_vars

(***************************************************************************)
(* SpecEdit: the eager path and its tasks, interleaved as in Spec, with a  *)
(* staff user who renames routes through the admin site.                   *)
(***************************************************************************)
\* RouteAdmin's change form saved with a new name (admin.py:50-59)
AdminRename(id) ==
    /\ Exists(id)
    /\ rows[id].name # <<"Renamed">>
    /\ rows' = [rows EXCEPT ![id].name = <<"Renamed">>]
    /\ UNCHANGED <<nextId, gpxStore, tags, routeTags, startPoints, asyncQ, deferredQ,
                   web, wk, cmd, hist>>

NextEdit ==
    \/ UNCHANGED aux /\ Cardinality(Running) < MaxConcurrent /\ CreatePersist
    \/ UNCHANGED aux /\ CreateTagsEnqueue
    \/ UNCHANGED aux /\ \E id \in Ids : Invoke(id)
    \/ UNCHANGED aux /\ \E id \in Ids : AdminRename(id)
    \/ UNCHANGED aux /\ \E sp \in AllStartPoints : AddStartPoint(sp)
    \/ UNCHANGED aux /\ Cardinality(Running) < MaxConcurrent /\ \E w \in Workers : AsyncGet(w)
    \/ UNCHANGED aux /\ \E w \in Workers : Locate(w)
    \/ UNCHANGED aux /\ \E w \in Workers : Geocode(w)
    \/ UNCHANGED aux /\ \E w \in Workers : SaveLocation(w)
    \/ UNCHANGED aux /\ \E w \in Workers : Render(w)
    \/ UNCHANGED aux /\ \E w \in Workers : SaveThumbnail(w)
    \/ UNCHANGED aux /\ \E w \in Workers : Release(w)

SpecEdit == Init /\ [][NextEdit]_vars

(***************************************************************************)
(* SpecFaults: the eager path and its tasks, interleaved as in Spec, with  *)
(* routes deleted at any moment and a file storage that may refuse a       *)
(* thumbnail.                                                              *)
(***************************************************************************)
\* tasks.py:47 and 129: the storage raises while the thumbnail file is written, before
\* the row is saved; the handler of line 53 or 133 returns the error status
SaveThumbnailFails(w) ==
    /\ wk[w].pc = "save_thumbnail"
    /\ wk' = [wk EXCEPT ![w].pc = "done", ![w].status = ErrorStatus(wk[w].kind)]
    /\ UNCHANGED <<rows, nextId, gpxStore, tags, routeTags, startPoints, asyncQ,
                   deferredQ, web, cmd, hist>>

NextFaults ==
    \/ UNCHANGED aux /\ Cardinality(Running) < MaxConcurrent /\ CreatePersist
    \/ UNCHANGED aux /\ CreateTagsEnqueue
    \/ UNCHANGED aux /\ \E id \in Ids : Invoke(id)
    \/ UNCHANGED aux /\ \E id \in Ids : DeleteRoute(id)
    \/ UNCHANGED aux /\ \E sp \in AllStartPoints : AddStartPoint(sp)
    \/ UNCHANGED aux /\ Cardinality(Running) < MaxConcurrent /\ \E w \in Workers : AsyncGet(w)
    \/ UNCHANGED aux /\ \E w \in Workers : Locate(w)
    \/ UNCHANGED aux /\ \E w \in Workers : Geocode(w)
    \/ UNCHANGED aux /\ \E w \in Workers : SaveLocation(w)
    \/ UNCHANGED aux /\ \E w \in Workers : Render(w)
    \/ UNCHANGED aux /\ \E w \in Workers : SaveThumbnail(w)
    \/ UNCHANGED aux /\ \E w \in Workers : SaveThumbnailFails(w)
    \/ UNCHANGED aux /\ \E w \in Workers : Release(w)

SpecFaults == Init /\ [][NextFaults]_vars

(***************************************************************************)
(* Properties.  Each is checked under the specification named with it.     *)
(***************************************************************************)
\* a step changes the start_location of a row that had one
Overwritten(i) ==
    /\ i \in DOMAIN rows
    /\ i \in DOMAIN rows'
    /\ NonEmpty(rows[i].start_location)
    /\ rows'[i].start_location # rows[i].start_location

\* C1 as stated (SpecSeq): over any sequence of process_route_async runs, deferred
\* tasks and update_start_locations runs, a start_location that is non-empty never
\* changes again.
C1_NeverOverwritten == [][\A i \in Ids : ~Overwritten(i)]_vars

\* C1 amended (SpecSeq): a non-empty start_location changes only in a step of
\* update_start_locations --all without --dry-run on that route, and then to the name
\* of the closest StartPoint within 250 m or, with --force-geocode, no StartPoint within
\* 250 m and an old value that looks like coordinates, to the geocoder's non-empty
\* result.
C1_OverwrittenOnlyByAll ==
    [][\A i \in Ids : Overwritten(i) =>
        /\ cmd.pc = "loop"
        /\ cmd.all
        /\ ~cmd.dry
        /\ Head(cmd.todo).id = i
        /\ LET lat == rows[i].start_lat[1]
               lon == rows[i].start_lon[1]
               near == find_closest_start_point(lat, lon, 250, startPoints)
           IN  \/ \E sp \in near : rows'[i].start_location = sp.name
               \/ /\ near = {}
                  /\ cmd.force
                  /\ _is_coordinate_string(rows[i].start_location)
                  /\ NonEmpty(rows'[i].start_location)
                  /\ \E resp \in Responses :
                        rows'[i].start_location = get_location_name(lat, lon, resp)]_vars

\* C1 witness: a start_location that was written once has been replaced by the name
\* of a StartPoint, and the command has ended
C1_Witness ==
    \E i \in DOMAIN rows :
        /\ hist.locWrites[i] = 2
        /\ rows[i].start_location = <<"Park">>
        /\ cmd.pc = "idle"

\* the process_route_async runs that read an existing row and are not yet released
AsyncRuns == {w \in Workers : wk[w].kind = "async" /\ wk[w].status # "not_found"}

\* C2 (SpecSeq): a process_route_async run that read a non-empty start_location calls
\* neither the matcher nor the geocoder and leaves start_location as it was; a run that
\* read a thumbnail does not call the renderer and leaves the thumbnail as it was.
C2_SkippedWhenSet ==
    \A w \in AsyncRuns :
        /\ NonEmpty(wk[w].seenLoc) =>
            /\ wk[w].matched = << >>
            /\ wk[w].geocoded = << >>
            /\ Exists(wk[w].rid)
            /\ rows[wk[w].rid].start_location = wk[w].seenLoc
        /\ wk[w].seenThumb # 0 =>
            /\ wk[w].rendered = << >>
            /\ Exists(wk[w].rid)
            /\ rows[wk[w].rid].thumbnail_image = wk[w].seenThumb

\* C2 witness: a run on a row with both fields set has returned
C2_Witness ==
    \E w \in AsyncRuns :
        /\ wk[w].pc = "done"
        /\ wk[w].status = "processed"
        /\ NonEmpty(wk[w].seenLoc)
        /\ wk[w].seenThumb # 0

\* the process_route_async runs that have returned and came right after another
\* process_route_async run on the same row
SecondRuns ==
    {w \in AsyncRuns : wk[w].pc = "done" /\ hist.ran[wk[w].rid] /\ Exists(wk[w].rid)}

\* C3 as stated (SpecSeq): the second of two process_route_async runs in succession
\* leaves start_location and thumbnail as the first run left them, whatever matcher,
\* geocoder and renderer do.
C3_SecondRunNoOp ==
    \A w \in SecondRuns :
        /\ rows[wk[w].rid].start_location = wk[w].seenLoc
        /\ rows[wk[w].rid].thumbnail_image = wk[w].seenThumb

\* C3 amended (SpecSeq): the second run leaves unchanged each field the first run left
\* non-empty and calls nothing when both are; a field the first run left empty either
\* stays empty or takes what the matcher, the geocoder or the renderer gave the second
\* run.
C3_SecondRunKeepsSetFields ==
    \A w \in SecondRuns :
        LET row == rows[wk[w].rid]
        IN  /\ NonEmpty(wk[w].seenLoc) => row.start_location = wk[w].seenLoc
            /\ wk[w].seenThumb # 0 => row.thumbnail_image = wk[w].seenThumb
            /\ NonEmpty(wk[w].seenLoc) /\ wk[w].seenThumb # 0 =>
                    wk[w].matched = << >> /\ wk[w].geocoded = << >> /\ wk[w].rendered = << >>
            /\ row.start_location # wk[w].seenLoc =>
                    \/ wk[w].matched = <<"hit">>
                            /\ \E sp \in startPoints : row.start_location = sp.name
                    \/ wk[w].matched = <<"none">> /\ wk[w].geocoded = <<row.start_location>>
            /\ row.thumbnail_image # wk[w].seenThumb =>
                    wk[w].rendered \in {<< <<"screenshot">> >>, << <<"plot">> >>}

\* C3 witness: a second run in succession that filled the thumbnail the first run,
\* whose renderer gave nothing, had left empty
C3_Witness ==
    \E w \in SecondRuns :
        /\ wk[w].seenThumb = 0
        /\ rows[wk[w].rid].thumbnail_image # 0
        /\ NonEmpty(wk[w].seenLoc)

\* C4 as stated (Spec): under any interleaving of the units that work on one record,
\* start_location and thumbnail are each written at most once: a write that is not
\* made by update_start_locations --all, whose re-processing is C1's subject, is the
\* first write of its field.
C4_WrittenAtMostOnce ==
    [][\A i \in Ids :
        /\ (hist.locWrites'[i] # hist.locWrites[i]
                /\ ~(cmd.pc = "loop" /\ cmd.all /\ cmd' # cmd))
            => hist.locWrites[i] = 0
        /\ hist.thumbWrites'[i] # hist.thumbWrites[i] => hist.thumbWrites[i] = 0]_vars

\* C5 as stated (SpecSeq): a process_route_async run that read an empty start_location
\* and start coordinates that are not null, and that returned "Successfully processed",
\* called the matcher; it left the StartPoint's name when the matcher returned one,
\* without calling the geocoder, and the geocoder's result when the matcher returned
\* none.
C5_LocationResolved ==
    \A w \in AsyncRuns :
        (/\ wk[w].pc = "done"
         /\ wk[w].status = "processed"
         /\ wk[w].seenLoc = EmptyStr
         /\ wk[w].route.start_lat # None
         /\ wk[w].route.start_lon # None
         /\ Exists(wk[w].rid))
        => LET lat == wk[w].route.start_lat[1]
               lon == wk[w].route.start_lon[1]
               loc == rows[wk[w].rid].start_location
           IN  \/ /\ wk[w].matched = <<"hit">>
                  /\ wk[w].geocoded = << >>
                  /\ \E sp \in find_closest_start_point(lat, lon, 250, startPoints) :
                        loc = sp.name
               \/ /\ wk[w].matched = <<"none">>
                  /\ find_closest_start_point(lat, lon, 250, startPoints) = {}
                  /\ wk[w].geocoded = <<loc>>

\* the tasks that have returned after calling the matcher, the geocoder or the renderer
Attempted ==
    {w \in Workers :
        /\ wk[w].pc = "done"
        /\ wk[w].matched # << >> \/ wk[w].rendered # << >>}

\* the thumbnail step is due for the task of worker w: the route has coordinates and,
\* for process_route_async, had no thumbnail when the task read it
ThumbnailDue(w) ==
    /\ wk[w].route.route_coordinates # << >>
    /\ wk[w].kind = "deferred" \/ wk[w].seenThumb = 0

\* C6 as stated (SpecSeq): a failure of the matcher, the geocoder or the renderer is
\* contained to its sub-step: the task is reported as successful and the thumbnail
\* step has run whenever it was due.
C6_FailureContained ==
    \A w \in Attempted :
        /\ wk[w].status \in {"processed", "created_and_processed"}
        /\ ThumbnailDue(w) => wk[w].rendered # << >>

\* C6 amended (SpecSeq): a failure inside the geocoder or the renderer is contained (the
\* geocoder's name is still stored, the thumbnail step still runs when due, the task
\* reports success, also when the renderer gave nothing); an exception of the matcher
\* ends the task: neither geocoder nor renderer is called, nothing is written and the
\* task reports an error.
C6_MatcherFailureAborts ==
    \A w \in Attempted :
        IF wk[w].matched = <<"raised">>
        THEN /\ wk[w].status =
                    (IF wk[w].kind = "async" THEN "error_processing" ELSE "error_creating")
             /\ wk[w].geocoded = << >>
             /\ wk[w].rendered = << >>
             /\ Exists(wk[w].rid)
             /\ rows[wk[w].rid].start_location =
                    (IF wk[w].kind = "async" THEN wk[w].seenLoc ELSE EmptyStr)
             /\ rows[wk[w].rid].thumbnail_image =
                    (IF wk[w].kind = "async" THEN wk[w].seenThumb ELSE 0)
        ELSE /\ wk[w].status =
                    (IF wk[w].kind = "async" THEN "processed" ELSE "created_and_processed")
             /\ ThumbnailDue(w) => wk[w].rendered # << >>
             /\ wk[w].geocoded # << >> /\ NonEmpty(wk[w].geocoded[1])
                    => /\ Exists(wk[w].rid)
                       /\ rows[wk[w].rid].start_location = wk[w].geocoded[1]

\* C6 witness: a task whose matcher call raised has returned
C6_Witness ==
    \E w \in Attempted :
        /\ wk[w].matched = <<"raised">>
        /\ ThumbnailDue(w)

\* C7 (Spec): a process_route_async task taken for an id returns "Route {id} not found"
\* exactly when no row has that id, and then neither that step nor the hand-over of the
\* result creates or modifies a row, a file, a tag or a StartPoint.
C7_NotFoundNoOp ==
    [][\A w \in Workers :
        /\ (wk[w].pc = "idle" /\ wk'[w].kind = "async") =>
            /\ wk'[w].status = "not_found" <=> ~Exists(wk'[w].rid)
            /\ ~Exists(wk'[w].rid) =>
                /\ wk'[w].pc = "done"
                /\ UNCHANGED <<rows, nextId, gpxStore, tags, routeTags, startPoints, hist>>
        /\ (wk[w].status = "not_found" /\ wk'[w] # wk[w]) =>
            /\ wk'[w] = IdleWorker
            /\ UNCHANGED <<rows, nextId, gpxStore, tags, routeTags, startPoints>>
            /\ hist'.locWrites = hist.locWrites
            /\ hist'.thumbWrites = hist.thumbWrites]_vars

\* C7 witness: a task for the id of a deleted row has returned "Route {id} not found"
C7_Witness ==
    \E w \in Workers :
        /\ wk[w].status = "not_found"
        /\ wk[w].rid \in hist.eager
        /\ ~Exists(wk[w].rid)

\* C8 as stated (SpecSeq): a row persisted by create_route_from_gpx has start_location
\* and thumbnail empty and no enqueue while the call is between persist and enqueue,
\* and exactly one enqueue of its id once the call has ended, whatever the tag names.
C8_EnqueuedOnce ==
    \A i \in hist.eager :
        IF web.pc = "tags" /\ web.rid = i
        THEN /\ hist.enq[i] = 0
             /\ Exists(i)
             /\ rows[i].start_location = EmptyStr
             /\ rows[i].thumbnail_image = 0
        ELSE hist.enq[i] = 1

\* C9 (Spec): a create_route_from_gpx call whose parse fails ends at once with the
\* parse error and persists no row, stores no file and enqueues nothing; every file in
\* storage belongs to a row that was persisted.
C9_ParseFailureLeavesNothing ==
    /\ [](gpxStore = nextId - 1)
    /\ [][(web'.status = "parse_error" /\ web' # web) =>
            /\ web.pc = "idle"
            /\ web'.pc = "idle"
            /\ UNCHANGED <<rows, nextId, gpxStore, asyncQ, deferredQ, hist,
                           tags, routeTags>>]_vars

\* C9 witness: a call has ended with the parse error while a route exists
C9_Witness ==
    /\ web.status = "parse_error"
    /\ web.pc = "idle"
    /\ rows # << >>

\* the file name without its trailing extension
StripExtension(fname) ==
    IF HasGpxExtension(fname) THEN SubSeq(fname, 1, Len(fname) - 1) ELSE fname

\* the name the claim gives the route of an upload
ClaimedName(up) ==
    IF NonEmpty(up.override) THEN up.override
    ELSE IF NonEmpty(parse_gpx(up.doc).name) THEN parse_gpx(up.doc).name
    ELSE StripExtension(up.fname)

\* C10 as stated (SpecSeq): every row, of the eager and of the deferred path, is the
\* row of an upload and bears the override name, else the GPX name, else the file name
\* without its trailing extension, whatever the letter case of the extension.
C10_NameResolved ==
    \A i \in DOMAIN rows :
        \E up \in Uploads :
            /\ up.doc.wellformed
            /\ rows[i].gpx_file = up.fname
            /\ rows[i].route_coordinates = parse_gpx(up.doc).points
            /\ rows[i].name = ClaimedName(up)

\* the results recorded for the file named fname
ResultsOf(fname) == {r \in bulk.results : r.fname = fname}

\* the batch is through: no file is left and no task of it is running
BulkFinished ==
    /\ bulk.pc # "idle"
    /\ bulk.todo = << >>
    /\ \A w \in Workers : wk[w].pc = "idle"

\* C11: in a batch, a file whose parse fails gives no Route row and is named in the
\* failure report; every other file is still handled and gives a row of its own,
\* wherever the failing file stands in the batch
C11_FailureIsolated ==
    /\ \A k \in 1..Len(bulk.batch) :
        LET file == bulk.batch[k]
        IN  /\ BulkFinished => ResultsOf(file.fname) # {}
            /\ \A r \in ResultsOf(file.fname) :
                IF file.doc.wellformed
                THEN /\ r.rid \in DOMAIN rows
                     /\ rows[r.rid].gpx_file = file.fname
                     /\ \A other \in bulk.results : other.rid = r.rid => other = r
                ELSE /\ r.rid = 0
                     /\ \E j \in 1..Len(bulk.failed_files) :
                            bulk.failed_files[j] = file.fname
    /\ \A i \in DOMAIN rows :
        \E k \in Wellformed(bulk.batch) : rows[i].gpx_file = bulk.batch[k].fname

\* a batch of two files is through, the first failed to parse and the second has its row
C11_Witness ==
    /\ BulkFinished
    /\ Len(bulk.batch) = 2
    /\ ~bulk.batch[1].doc.wellformed
    /\ \E r \in ResultsOf(bulk.batch[2].fname) : r.rid \in DOMAIN rows
    /\ bulk.failed_files = <<bulk.batch[1].fname>>

\* the second pass is over: nothing runs or waits, and a killed task's record has had
\* its re-run
SecondOver ==
    /\ probe.phase = "second"
    /\ Quiet
    /\ probe.killed /\ rows # << >> => probe.rerun

\* C12: for the same file, file name, override name and tag names, and the same
\* behaviour of matcher, geocoder and renderer, one process_route_deferred leaves the
\* record (name, distance, elevation gain, coordinates, start coordinate, tags,
\* start_location, thumbnail presence) that create_route_from_gpx followed by its
\* process_route_async leaves
C12_DeferredEqualsEager ==
    probe.mode = "deferred" /\ SecondOver => Outcome = probe.first

\* both passes are over and the deferred one left a record with a location, a thumbnail
\* and a tag
C12_Witness ==
    /\ probe.mode = "deferred"
    /\ SecondOver
    /\ \E i \in DOMAIN rows :
        /\ NonEmpty(rows[i].start_location)
        /\ rows[i].thumbnail_image # 0
        /\ routeTags[i] # {}

\* C13: at least one second passes between any two calls of the reverse geocoder,
\* whoever issues them (the command, the tasks of a bulk upload, the workers)
C13_OneSecondApart == ~geo.burst

\* C14: a task killed at any point leaves start_location and the thumbnail each unset
\* or set as the uninterrupted run sets it, and process_route_async run again on the
\* record ends in the record state the uninterrupted run ends in
C14_KilledRerunCompletes ==
    /\ probe.killed /\ ~probe.rerun /\ Quiet =>
        \A i \in DOMAIN rows :
            /\ rows[i].start_location \in {EmptyStr, probe.first.row[i].start_location}
            /\ rows[i].thumbnail_image # 0 => probe.first.row[i].thumbnail_image # 0
    /\ probe.killed /\ SecondOver => Outcome = probe.first

\* C15: a route's share_token is assigned at its first save, 16 characters when
\* generated and the caller's value when one is given; no later save changes it; two
\* persisted routes never hold the same token
C15_TokenAssignedOnce ==
    /\ [](\A i \in DOMAIN probe.table :
            /\ probe.table[i].share_token =
                    (IF probe.table[i].given = EmptyStr
                     THEN SubSeq(probe.table[i].share_token, 1, 16)
                     ELSE probe.table[i].given)
            /\ Len(probe.table[i].share_token) >= 1
            /\ probe.table[i].given = EmptyStr => Len(probe.table[i].share_token) = 16
            /\ \A j \in DOMAIN probe.table :
                    probe.table[j].share_token = probe.table[i].share_token => j = i)
    /\ [][\A i \in DOMAIN probe.table :
            /\ i \in DOMAIN probe'.table =>
                    probe'.table[i].share_token = probe.table[i].share_token
            /\ probe'.copy # << >> /\ probe'.copy[1] = i =>
                    probe'.copy[2].share_token = probe.table[i].share_token]_vars

\* two routes are persisted, one with a generated token and one with the caller's, and
\* the first has been saved again in full from a copy read after the second was created
C15_Witness ==
    /\ DOMAIN probe.table = {1, 2}
    /\ probe.table[1].given = EmptyStr
    /\ probe.table[2].given # EmptyStr
    /\ probe.copy = <<1, probe.table[1]>>
    /\ NonEmpty(probe.table[1].start_location)

\* the points of a sequence of points, as a set
PointSet(points) == {points[k] : k \in 1..Len(points)}

\* C16: parse_gpx takes its points from one source: all track points in document order
\* if there is any, otherwise all route points if there is any, otherwise the
\* waypoints; no point of a lower source appears once a higher one gave a point
C16_OneSource ==
    probe.fn = "parse_gpx" =>
        LET doc == probe.doc
            points == probe.result.points
        IN  /\ points \in {TrackPoints(doc), RoutePoints(doc), doc.waypoints}
            /\ TrackPoints(doc) # << >> => points = TrackPoints(doc)
            /\ TrackPoints(doc) = << >> /\ RoutePoints(doc) # << >> =>
                    points = RoutePoints(doc)
            /\ TrackPoints(doc) = << >> /\ RoutePoints(doc) = << >> =>
                    points = doc.waypoints
            /\ TrackPoints(doc) # << >> =>
                    PointSet(points) \cap
                        (PointSet(RoutePoints(doc)) \cup PointSet(doc.waypoints)) = {}
            /\ RoutePoints(doc) # << >> =>
                    PointSet(points) \cap PointSet(doc.waypoints) = {}

\* parse_gpx was given two tracks (three segments of points), routes and waypoints, and
\* returned the four track points in document order
C16_Witness ==
    /\ probe.fn = "parse_gpx"
    /\ Len(probe.doc.tracks) = 2
    /\ probe.doc.routes # << >> /\ RoutePoints(probe.doc) # << >>
    /\ probe.doc.waypoints # << >>
    /\ probe.result.points = << <<1, 1>>, <<0, 1>>, <<2, 1>> >>

\* the distance from the probe's coordinate to a StartPoint
ProbeDistance(sp) == distance_meters(probe.lat, probe.lon, sp.latitude, sp.longitude)

\* C17: over the stored StartPoints find_closest_start_point returns a candidate at
\* minimal distance exactly when that distance is <= max_distance_meters (the limit
\* included) and none otherwise, also when nothing is stored; the pipeline calls it
\* with 250
C17_ClosestWithinLimit ==
    probe.fn = "find_closest_start_point" =>
        /\ probe.result # {} <=>
                \E sp \in startPoints : ProbeDistance(sp) <= probe.max_distance_meters
        /\ \A sp \in probe.result :
                /\ sp \in startPoints
                /\ ProbeDistance(sp) <= probe.max_distance_meters
                /\ \A other \in startPoints : ProbeDistance(sp) <= ProbeDistance(other)
        /\ startPoints = {} => probe.result = {}
        /\ probe.max_distance_meters = 250 =>
                probe.pipeline = IF probe.result = {} THEN {{}}
                                 ELSE {{sp} : sp \in probe.result}

\* three StartPoints are stored and the call returned one that lies exactly at the
\* limit of 250 m
C17_Witness ==
    /\ probe.fn = "find_closest_start_point"
    /\ Cardinality(startPoints) = 3
    /\ probe.max_distance_meters = 250
    /\ \E sp \in probe.result : ProbeDistance(sp) = 250

\* C18: whatever the HTTP call does, get_location_name returns; after a timeout, a
\* network error, a status other than 200 or a malformed body it returns the latitude
\* and the longitude with four decimals, "lat, lon"
C18_FallsBackToCoordinates ==
    probe.fn = "get_location_name" =>
        (probe.resp.raised \/ probe.resp.status_code # 200 \/ probe.resp.malformed =>
            probe.result = <<ToString(probe.lat) \o ".0000", ", ",
                             ToString(probe.lon) \o ".0000">>)

\* the call for (-1, 1) got a 404 whose body has a display_name and returned
\* "-1.0000, 1.0000"
C18_Witness ==
    /\ probe.fn = "get_location_name"
    /\ probe.resp.status_code = 404
    /\ NonEmpty(probe.resp.display_name)
    /\ probe.result = <<"-1.0000", ", ", "1.0000">>

\* the Playwright path of the probe's call failed: it raised, or its screenshot is not
\* larger than 5000 bytes
PrimaryFailed == probe.primary.raised \/ probe.primary.size <= 5000

\* C19: generate_static_map_image returns none only for no points (and then starts no
\* renderer) or when both renderers fail; whenever the primary path fails the result is
\* what the fallback renderer returns for the same points
C19_FallbackResult ==
    probe.fn = "generate_static_map_image" =>
        /\ probe.result = None =>
                probe.points = << >> \/ (PrimaryFailed /\ ~probe.fallbackOk)
        /\ probe.points = << >> => probe.result = None /\ probe.invoked = {}
        /\ probe.points # << >> /\ PrimaryFailed =>
                /\ probe.result = _generate_simple_thumbnail(probe.points, probe.fallbackOk)
                /\ "matplotlib" \in probe.invoked
        /\ probe.points # << >> /\ ~PrimaryFailed => probe.result = <<"screenshot">>

\* the screenshot of a route of two points had exactly 5000 bytes and the call returned
\* the fallback's plot
C19_Witness ==
    /\ probe.fn = "generate_static_map_image"
    /\ Len(probe.points) = 2
    /\ ~probe.primary.raised /\ probe.primary.size = 5000
    /\ probe.result = <<"plot">>

\* the normalized forms of the non-blank names of a tag list
NormalizedNames(tag_names) ==
    {normalize_name(Strip(tag_names[k])) :
        k \in {j \in 1..Len(tag_names) : Strip(tag_names[j]) # EmptyStr}}

\* C20: a tag loop run for a stored route, whatever names it is given, raises no error,
\* leaves the route linked to the tag of every non-blank name's normalized form, and
\* adds to the Tag table only the normalized forms it did not hold yet
C20_NormalizedTagReused ==
    [][\A tag_names \in TagLists :
          /\ (CreateTagsEnqueueOf(tag_names) /\ Exists(web.rid)) =>
                /\ web'.status = "ok"
                /\ NormalizedNames(tag_names) \subseteq routeTags'[web.rid]
                /\ tags' = tags \cup NormalizedNames(tag_names)
          /\ \A w \in Workers :
                (DeferredTagsOf(w, tag_names) /\ Exists(wk[w].rid)) =>
                    /\ wk'[w].status # "error_creating"
                    /\ NormalizedNames(tag_names) \subseteq routeTags'[wk[w].rid]
                    /\ tags' = tags \cup NormalizedNames(tag_names)]_vars

\* the renderer was not called and no thumbnail file was deleted in the last run of
\* regenerate_thumbnails
RegenIdle ==
    /\ \A i \in Ids : regen.calls[i] = 0 /\ regen.returned[i] = "none"
    /\ regen.deleted = {}

\* C21: with --dry-run neither backfill command changes a Route record: no step of
\* update_start_locations saves, and regenerate_thumbnails neither calls the renderer,
\* nor deletes a thumbnail file, nor writes a row, whatever the other flags are
C21_DryRunChangesNothing ==
    /\ [](regen.dry => RegenIdle)
    /\ [][((regen' # regen /\ (regen.dry \/ regen'.dry))
                => (rows' = rows /\ hist' = hist))
          /\ ((cmd' # cmd /\ (cmd.dry \/ cmd'.dry))
                => (rows' = rows /\ hist' = hist))]_vars

\* a dry run of regenerate_thumbnails --force has passed over a route that has a
\* thumbnail, and a dry run of update_start_locations --all is at a route whose
\* start_location differs from the name of the StartPoint at its start
C21_Witness ==
    /\ regen.dry /\ regen.force /\ regen.message = "summary" /\ regen.success_count = 1
    /\ cmd.pc = "loop" /\ cmd.dry /\ cmd.all
    /\ \E i \in DOMAIN rows :
        /\ rows[i].thumbnail_image # 0
        /\ Head(cmd.todo).id = i
        /\ NonEmpty(rows[i].start_location)
        /\ \E sp \in startPoints :
            /\ {sp} \in MatchResults(rows[i].start_lat[1], rows[i].start_lon[1])
            /\ sp.name # rows[i].start_location

\* C22: a run of regenerate_thumbnails --route-id N without --dry-run calls the renderer
\* once for route N when the route exists and has coordinates, with or without a
\* thumbnail, and stores the image it returns; for an id without a row the run reports
\* "not found" and calls no renderer
C22_RouteIdRendersOnce ==
    [][(regen' # regen /\ regen'.route_id # 0 /\ ~regen'.dry) =>
            /\ (regen.pc = "idle" /\ ~Exists(regen'.route_id)) =>
                    (regen'.message = "not_found" /\ regen'.pc = "idle")
            /\ (regen.pc = "loop" /\ Exists(regen.route_id)
                    /\ rows[regen.route_id].route_coordinates # << >>) =>
                    /\ regen'.calls[regen.route_id] = 1
                    /\ regen'.returned[regen.route_id] = "image" =>
                            /\ rows'[regen.route_id].thumbnail_image # 0
                            /\ hist'.thumbWrites[regen.route_id]
                                    = Count(hist.thumbWrites[regen.route_id] + 1)]_vars

\* the columns of a row other than start_location and thumbnail_image
OtherFields ==
    {"name", "gpx_file", "route_coordinates", "distance_km", "elevation_gain",
     "start_lat", "start_lon"}

\* C23: no step of a process_route_async run changes a field of its record other than
\* start_location and thumbnail_image, so an edit made by another actor after the run
\* read the record (a rename) is still in the record when the run has finished
C23_OtherFieldsUntouched ==
    [][\A w \in Workers :
          (wk[w].kind = "async" /\ wk'[w] # wk[w] /\ Exists(wk[w].rid)) =>
              /\ wk[w].rid \in DOMAIN rows'
              /\ \A f \in OtherFields : rows'[wk[w].rid][f] = rows[wk[w].rid][f]]_vars

\* the names that the elements of a sequence declare, in document order
DeclaredNames(elems) == SelectSeq([k \in 1..Len(elems) |-> elems[k].name], NonEmpty)

\* the first name of a sequence of names, empty when there is none
FirstOf(names) == IF names = << >> THEN EmptyStr ELSE names[1]

\* C24 as stated: the name parse_gpx returns is the first name declared by a track or a
\* route, tracks before routes, and is empty only when none of them declares a name
C24_FirstDeclaredName ==
    probe.fn = "parse_gpx" =>
        probe.result.name =
            FirstOf(DeclaredNames(probe.doc.tracks) \o DeclaredNames(probe.doc.routes))

\* C24 amended: the name is the first name a track declares; when no track declares one
\* it is the first name a route declares if the tracks hold no point, and empty if the
\* tracks hold a point: the routes are read only when the tracks gave no point
C24_FirstNameOfSourcesRead ==
    probe.fn = "parse_gpx" =>
        probe.result.name =
            IF DeclaredNames(probe.doc.tracks) # << >>
            THEN FirstOf(DeclaredNames(probe.doc.tracks))
            ELSE IF TrackPoints(probe.doc) = << >>
            THEN FirstOf(DeclaredNames(probe.doc.routes))
            ELSE EmptyStr

\* parse_gpx was given a track without a name that holds points and a route named
\* "Plan", and returned the empty name
C24_Witness ==
    /\ probe.fn = "parse_gpx"
    /\ Len(probe.doc.tracks) = 1 /\ TrackPoints(probe.doc) # << >>
    /\ DeclaredNames(probe.doc.routes) = << <<"Plan">> >>
    /\ probe.result.name = EmptyStr

\* the start is null exactly when there is no point, and is the first point otherwise
StartOf(points, lat, lon) ==
    /\ (lat = None) = (points = << >>)
    /\ (lon = None) = (points = << >>)
    /\ points # << >> => lat = <<points[1][1]>> /\ lon = <<points[1][2]>>

Present(fields) == SelectSeq(fields, NonEmpty)

\* road, the first present of city, town and village, and state: those present, in
\* that order
ClaimedParts(resp) ==
    Present(<<resp.road, FirstOf(Present(<<resp.city, resp.town, resp.village>>)),
              resp.state>>)

\* at most three parts joined with ", "
Joined(parts) ==
    IF Len(parts) = 1 THEN parts[1]
    ELSE IF Len(parts) = 2 THEN parts[1] \o <<", ">> \o parts[2]
    ELSE parts[1] \o <<", ">> \o parts[2] \o <<", ">> \o parts[3]

\* C26: for a well-formed answer of status 200 get_location_name returns the present
\* ones of road, the first present of city / town / village, and state, in that
\* order, joined with ", ", and the answer's display_name when none of them is present
C26_AddressInPriorityOrder ==
    (/\ probe.fn = "get_location_name"
     /\ ~probe.resp.raised /\ probe.resp.status_code = 200 /\ ~probe.resp.malformed) =>
        probe.result = IF ClaimedParts(probe.resp) # << >>
                       THEN Joined(ClaimedParts(probe.resp))
                       ELSE probe.resp.display_name

\* the answer had a road, a town, a village and a state but no city, and the call
\* returned "Road, Town, State"
C26_Witness ==
    /\ probe.fn = "get_location_name"
    /\ probe.resp.status_code = 200
    /\ probe.resp.city = EmptyStr /\ NonEmpty(probe.resp.village)
    /\ probe.resp.display_name = <<"Somewhere">>
    /\ probe.result = <<"Road", ", ", "Town", ", ", "State">>

\* the step ends the process_route_async run of worker w
AsyncEnds(w) == wk'[w].kind = "async" /\ wk'[w].pc = "done" /\ wk[w].pc # "done"

\* C27: a process_route_async run always ends with one of its three status strings:
\* "Route not found" exactly when the record was missing when the run read it; "Error
\* processing" exactly when the matcher raised, the save of start_location failed or
\* the storage refused the thumbnail; "Successfully processed" otherwise, also when the
\* renderer returned none, and then the thumbnail stays as it was.  (A refused
\* thumbnail leaves the run's instance as it was.)
C27_AlwaysReturnsStatus ==
    [][\A w \in Workers : AsyncEnds(w) =>
          LET id == wk'[w].rid
              failed ==
                \/ wk[w].pc = "locate" /\ wk'[w].matched = <<"raised">>
                \/ wk[w].pc = "save_location" /\ ~Exists(id)
                \/ wk[w].pc = "save_thumbnail" /\ wk'[w].route = wk[w].route
          IN  /\ wk'[w].status \in {"processed", "not_found", "error_processing"}
              /\ wk'[w].status = "not_found" <=> (wk[w].pc = "idle" /\ ~Exists(id))
              /\ wk'[w].status = "error_processing" <=> failed
              /\ (wk[w].pc = "render" /\ wk'[w].rendered = <<None>>) =>
                    /\ wk'[w].status = "processed"
                    /\ rows' = rows]_vars

\* a run whose renderer returned none has ended with "Successfully processed" and its
\* record has no thumbnail
C27_Witness ==
    \E w \in Workers :
        /\ wk[w].kind = "async" /\ wk[w].pc = "done"
        /\ wk[w].rendered = <<None>>
        /\ wk[w].status = "processed"
        /\ Exists(wk[w].rid) /\ rows[wk[w].rid].thumbnail_image = 0

\* C28: no step of a process_route_async run brings back the row of a route that was
\* deleted after the run read it: the ids that have a row after the step had one before
C28_DeletedStaysDeleted ==
    [][\A w \in Workers :
          (wk[w].kind = "async" /\ wk'[w] # wk[w]) =>
              DOMAIN rows' \subseteq DOMAIN rows]_vars

\* the step ends the process_route_deferred run of worker w
DeferredEnds(w) == wk'[w].kind = "deferred" /\ wk'[w].pc = "done" /\ wk[w].pc # "done"

\* C29: when a process_route_deferred run returns "Error creating route" no Route was
\* stored for its file, and when it returns "Successfully created and processed" the
\* Route it stored is in the table
C29_StatusAgreesWithStore ==
    [][\A w \in Workers : DeferredEnds(w) =>
          /\ wk'[w].status = "error_creating" => wk'[w].rid \notin DOMAIN rows'
          /\ wk'[w].status = "created_and_processed" => wk'[w].rid \in DOMAIN rows']_vars

\* the step is an iteration of regenerate_thumbnails that called the renderer for id
RegenCalled(id) ==
    /\ regen.pc = "loop" /\ Head(regen.todo).id = id
    /\ regen'.calls[id] = regen.calls[id] + 1

====
